---- MODULE Spec2Model ----
(***************************************************************************)
(* SpecDecodeWorker (vllm/spec_decode/spec_decode_worker.py): the          *)
(* coordinator of speculative decoding.  One driver rank runs              *)
(* execute_model; one non-driver rank of the tensor-parallel group runs    *)
(* _run_non_driver_rank on every control dict the driver broadcasts.       *)
(*                                                                         *)
(* Tensors are sequences of rows, rows are sequences of token ids.  Index  *)
(* 1 of a TLA+ sequence is index 0 of the Python list or tensor.           *)
(***************************************************************************)
EXTENDS Integers, Sequences, FiniteSets, TLC

\* ------------------------------------------------------------------ bounds
MaxSeqs == 2
MaxVerifySeqs == 3
MaxK == 2
MaxQueueSize == 1
MaxPrefillSteps == 2
MaxReceipts == 3
TokBase == 10

\* vllm.sequence.VLLM_INVALID_TOKEN_ID, imported at line 25
VLLM_INVALID_TOKEN_ID == -1

VARIABLES
    disable_by_batch_size,              \* self.disable_by_batch_size; 0 stands for float("inf")
    num_spec_prefill_steps,             \* self._num_spec_prefill_steps
    allow_zero_draft_token_step,        \* self._allow_zero_draft_token_step
    disable_logprobs,                   \* self._disable_logprobs
    vocab_sizes,                        \* vocab_size of proposer_worker and of scorer_worker
    scorer,                             \* self.scorer, set by init_device
    seq_with_bonus_token_in_last_step,  \* self._seq_with_bonus_token_in_last_step
    request_id_seq_id_mapping,          \* self._request_id_seq_id_mapping
    previous_hidden_states,             \* self.previous_hidden_states
    chan,                               \* control dicts broadcast and not yet received
    worker_pc,                          \* position of the non-driver rank
    worker,                             \* what the last _run_non_driver_rank call did
    call,                               \* the driver's last execute_model call and its result
    sent_step,                          \* history: the driver's step whose dict is in flight
    last_commit_bonus,                  \* history: seq ids whose last committing step gave a bonus token
    received                            \* history: the dicts received and what was done on each

vars == <<disable_by_batch_size, num_spec_prefill_steps, allow_zero_draft_token_step,
          disable_logprobs, vocab_sizes, scorer, seq_with_bonus_token_in_last_step, request_id_seq_id_mapping,
          previous_hidden_states, chan, worker_pc, worker, call, sent_step,
          last_commit_bonus, received>>

\* what __init__ is given and init_device builds: no step writes it; nor
\* does any write the log of receipts, but the receive that keeps it
config == <<disable_by_batch_size, num_spec_prefill_steps, allow_zero_draft_token_step,
            disable_logprobs, vocab_sizes, scorer, received>>

\* ------------------------------------------------------------ data model
SeqIds == 1..MaxSeqs
\* every sequence belongs to one request; one id more than is ever scheduled
RequestOf(s) == 100 + s
RequestIds == {RequestOf(s) : s \in 1..(MaxSeqs + 1)}

\* Python's None where a string stands for the value (prompt_logprobs)
None == "None"
\* an Optional[...] holding a tensor or an object: absent, or present with a value
Absent == [present |-> FALSE]
Some(x) == [present |-> TRUE, value |-> x]
\* the empty dict: the shutdown signal
EmptyDict == [empty |-> TRUE]

\* the token the target model samples for sequence s at position j of a step
Tok(s, j) == s * TokBase + j
\* the hidden state the target model computes for sequence s at position j
Hid(s, j) == s * TokBase + j

\* SequenceGroupMetadata: the fields the coordinator reads
SeqGroupMetadata(s, prompt, sample, nst, plp, nlp, seeded) ==
    [request_id |-> RequestOf(s), seq_id |-> s, is_prompt |-> prompt,
     do_sample |-> sample, num_speculative_tokens |-> nst,
     prompt_logprobs |-> plp, logprobs |-> nlp, seed |-> seeded]

Range(f) == {f[i] : i \in DOMAIN f}

RECURSIVE Repeat(_, _)
Repeat(x, n) == IF n <= 0 THEN <<>> ELSE <<x>> \o Repeat(x, n - 1)

RECURSIVE Indices(_, _, _)
\* the indices i >= from of sequence f with keep[i], in order
Indices(keep, from, n) ==
    IF from > n THEN <<>>
    ELSE (IF keep[from] THEN <<from>> ELSE <<>>) \o Indices(keep, from + 1, n)

Gather(t, idx) == [r \in 1..Len(idx) |-> t[idx[r]]]

Max(a, b) == IF a >= b THEN a ELSE b

Min(a, b) == IF a <= b THEN a ELSE b

\* ------------------------------------------------------ collaborators
\* vllm.sequence.HiddenStates as the coordinator uses it: the hidden state
\* kept for each sequence id, with the optional second-to-last one.
HiddenStates(hidden_states, seq_group_metadata_list, second_last) ==
    LET n == Min(Len(hidden_states), Len(seq_group_metadata_list))
        ids == {seq_group_metadata_list[r].seq_id : r \in 1..n}
        row(s) == CHOOSE r \in 1..n : seq_group_metadata_list[r].seq_id = s
    IN [hidden |-> [s \in ids |-> hidden_states[row(s)]],
        second_last |-> IF second_last.present
                        THEN Some([s \in ids |-> second_last.value[row(s)]])
                        ELSE Absent]

\* variant: update adds the entries that are missing and overwrites none
HiddenStatesUpdateMissing(hs, hidden_states, seq_group_metadata_list) ==
    LET new == HiddenStates(hidden_states, seq_group_metadata_list, Absent)
        ids == DOMAIN hs.hidden \cup DOMAIN new.hidden
    IN [hidden |-> [s \in ids |-> IF s \in DOMAIN hs.hidden THEN hs.hidden[s]
                                   ELSE new.hidden[s]],
        second_last |-> hs.second_last]

\* HiddenStates.update: add or overwrite the entry of every sequence given
HiddenStatesUpdate(hs, hidden_states, seq_group_metadata_list) ==
    LET new == HiddenStates(hidden_states, seq_group_metadata_list, Absent)
        ids == DOMAIN hs.hidden \cup DOMAIN new.hidden
    IN [hidden |-> [s \in ids |-> IF s \in DOMAIN new.hidden THEN new.hidden[s]
                                   ELSE hs.hidden[s]],
        second_last |-> IF hs.second_last.present
                        THEN Some([s \in ids |-> IF s \in DOMAIN new.hidden THEN 0
                                                  ELSE hs.second_last.value[s]])
                        ELSE Absent]

\* variant: prune drops nothing
HiddenStatesKeepAll(hs, seq_group_metadata_list) == hs

\* HiddenStates.prune: drop the entries of the sequences not given
HiddenStatesPrune(hs, seq_group_metadata_list) ==
    LET ids == {seq_group_metadata_list[r].seq_id : r \in 1..Len(seq_group_metadata_list)}
                  \cap DOMAIN hs.hidden
    IN [hidden |-> [s \in ids |-> hs.hidden[s]],
        second_last |-> IF hs.second_last.present
                        THEN Some([s \in ids |-> hs.second_last.value[s]])
                        ELSE Absent]

\* vllm.spec_decode.util.get_all_seq_ids_and_request_ids
get_all_seq_ids_and_request_ids(seq_group_metadata_list) ==
    LET n == Len(seq_group_metadata_list)
        rids == {seq_group_metadata_list[i].request_id : i \in 1..n}
    IN [seq_ids |-> [i \in 1..n |-> seq_group_metadata_list[i].seq_id],
        request_seq_ids |->
            [r \in rids |-> {seq_group_metadata_list[i].seq_id :
                                i \in {j \in 1..n : seq_group_metadata_list[j].request_id = r}}]]

\* vllm.spec_decode.util.split_batch_by_proposal_len: the indices with a
\* non-zero proposal length, then those with a zero one, each in batch order
split_batch_by_proposal_len(seq_group_metadata_list, proposal_lens) ==
    LET n == Len(seq_group_metadata_list)
    IN [spec_indices |-> Indices([i \in 1..n |-> proposal_lens[i] # 0], 1, n),
        non_spec_indices |-> Indices([i \in 1..n |-> proposal_lens[i] = 0], 1, n)]

\* vllm.spec_decode.util.create_sequence_group_output: one sample
create_sequence_group_output(token_id, rank, logprob, seq_id, topk_token_ids, prompt_logprobs, step_index) ==
    [samples |-> <<[seq_id |-> seq_id, token_id |-> token_id, rank |-> rank,
                    logprob |-> logprob, topk_token_ids |-> topk_token_ids]>>,
     prompt_logprobs |-> prompt_logprobs, step_index |-> step_index]

\* The rows the target model's sampler selects in a plain forward pass: a
\* prompt that asks for prompt logprobs has a row for its prompt tokens,
\* which predicts nothing; a sequence that samples has one row, its token.
RECURSIVE SelectedRows(_, _)
SelectedRows(seq_group_metadata_list, i) ==
    IF i > Len(seq_group_metadata_list) THEN <<>>
    ELSE LET sg == seq_group_metadata_list[i]
         IN (IF sg.is_prompt /\ sg.prompt_logprobs > 0
                THEN <<[seq_id |-> sg.seq_id, samples |-> FALSE]>> ELSE <<>>)
            \o (IF sg.do_sample
                   THEN <<[seq_id |-> sg.seq_id, samples |-> TRUE]>> ELSE <<>>)
            \o SelectedRows(seq_group_metadata_list, i + 1)

\* scorer_worker.execute_model(execute_model_req): one SamplerOutput
ScorerExecuteModel(seq_group_metadata_list, with_hidden) ==
    LET rows == SelectedRows(seq_group_metadata_list, 1)
        n == Len(seq_group_metadata_list)
    IN [outputs |->
            [i \in 1..n |->
                LET sg == seq_group_metadata_list[i]
                IN IF sg.do_sample
                   THEN create_sequence_group_output(Tok(sg.seq_id, 0), 1, "target",
                            sg.seq_id, <<>>,
                            IF sg.is_prompt /\ sg.prompt_logprobs > 0 THEN "target" ELSE None, 0)
                   ELSE [samples |-> <<>>,
                         prompt_logprobs |-> IF sg.is_prompt /\ sg.prompt_logprobs > 0
                                             THEN "target" ELSE None,
                         step_index |-> 0]],
        sampled_token_ids |->
            [r \in 1..Len(rows) |-> IF rows[r].samples THEN <<Tok(rows[r].seq_id, 0)>>
                                     ELSE <<VLLM_INVALID_TOKEN_ID>>],
        hidden_states |->
            IF with_hidden
            THEN Some([r \in 1..Len(rows) |-> IF rows[r].samples THEN Hid(rows[r].seq_id, 0)
                                               ELSE 0 - rows[r].seq_id])
            ELSE Absent,
        prefill_hidden_states |->
            IF with_hidden
            THEN Some([r \in 1..Len(rows) |-> IF rows[r].samples THEN Hid(rows[r].seq_id, 0)
                                               ELSE 0 - rows[r].seq_id])
            ELSE Absent]

\* ----------------------------------------------------------- coordinator
\* scorer_worker.model_config.max_logprobs
MaxLogprobs == 1

\* variant: speculation is disabled only above the threshold
should_disable_above_threshold(dbs, running_queue_size) ==
    dbs # 0 /\ running_queue_size > dbs

should_disable_all_speculation(dbs, running_queue_size) ==
    dbs # 0 /\ running_queue_size >= dbs

\* variant: the records are left as they are
keep_speculative_tokens(disable_all_speculation, seq_group_metadata_list) == seq_group_metadata_list

maybe_disable_speculative_tokens(disable_all_speculation, seq_group_metadata_list) ==
    IF ~disable_all_speculation THEN seq_group_metadata_list
    ELSE [i \in 1..Len(seq_group_metadata_list) |->
            [seq_group_metadata_list[i] EXCEPT !.num_speculative_tokens = 0]]

\* variant: the finished requests' sequences stay in the bonus set
track_finished_requests_keeping_bonus(bonus, mapping, finished_requests_ids) ==
    [bonus |-> bonus,
     mapping |-> [r \in DOMAIN mapping \ finished_requests_ids |-> mapping[r]],
     raised |-> ""]

\* variant: when a request finishes the two tables are cleared
track_finished_requests_clearing(bonus, mapping, finished_requests_ids) ==
    IF finished_requests_ids = {}
    THEN [bonus |-> bonus, mapping |-> mapping, raised |-> ""]
    ELSE [bonus |-> {}, mapping |-> <<>>, raised |-> ""]

\* variant: a plain dict, which inserts nothing when a missing key is read
DictGet(mapping, key) == mapping

\* the dict after defaultdict(set).__getitem__(key): a missing key is
\* inserted with the empty set
DefaultDictGet(mapping, key) ==
    IF key \in DOMAIN mapping THEN mapping ELSE (key :> {}) @@ mapping

\* the dict after del mapping[key]
DictDel(mapping, key) == [r \in DOMAIN mapping \ {key} |-> mapping[r]]

\* _request_id_seq_id_mapping is a defaultdict(set).  One finished request
\* after the other: its entry is read, its sequence ids are discarded from
\* the bonus set, its entry is deleted; a key that is missing when it is
\* read or deleted is a KeyError.
RECURSIVE track_finished_requests(_, _, _)
track_finished_requests(bonus, mapping, finished_requests_ids) ==
    IF finished_requests_ids = {}
    THEN [bonus |-> bonus, mapping |-> mapping, raised |-> ""]
    ELSE LET finished_request == CHOOSE r \in finished_requests_ids : TRUE
             read == DefaultDictGet(mapping, finished_request)
         IN IF finished_request \notin DOMAIN read
            THEN [bonus |-> bonus, mapping |-> read, raised |-> "KeyError"]
            ELSE track_finished_requests(bonus \ read[finished_request],
                                         DictDel(read, finished_request),
                                         finished_requests_ids \ {finished_request})

Transpose(t, num_steps) ==
    [j \in 1..num_steps |-> [i \in 1..Len(t) |-> t[i][j]]]

\* variant: the request-to-sequences map is not updated
track_sequences_without_mapping(bonus, mapping, seq_ids, request_seq_ids, accepted_token_ids_by_step) ==
    LET last == accepted_token_ids_by_step[Len(accepted_token_ids_by_step)]
        n == Len(seq_ids)
    IN [bonus |-> (bonus \ {seq_ids[i] : i \in {j \in 1..n : last[j] = -1}})
                  \cup {seq_ids[i] : i \in {j \in 1..n : last[j] # -1}},
        mapping |-> mapping]

\* variant: a sequence is added on a bonus token and never discarded
track_sequences_adding_only(bonus, mapping, seq_ids, request_seq_ids, accepted_token_ids_by_step) ==
    LET last == accepted_token_ids_by_step[Len(accepted_token_ids_by_step)]
        keys == DOMAIN mapping \cup DOMAIN request_seq_ids
    IN [bonus |-> bonus \cup {seq_ids[i] : i \in {j \in 1..Len(seq_ids) : last[j] # -1}},
        mapping |-> [r \in keys |->
                        (IF r \in DOMAIN mapping THEN mapping[r] ELSE {})
                        \cup (IF r \in DOMAIN request_seq_ids THEN request_seq_ids[r] ELSE {})]]

\* _track_sequences_with_bonus_tokens
track_sequences_with_bonus_tokens(bonus, mapping, seq_ids, request_seq_ids, accepted_token_ids_by_step) ==
    LET last == accepted_token_ids_by_step[Len(accepted_token_ids_by_step)]
        n == Len(seq_ids)
        added == {seq_ids[i] : i \in {j \in 1..n : last[j] # -1}}
        discarded == {seq_ids[i] : i \in {j \in 1..n : last[j] = -1}}
        keys == DOMAIN mapping \cup DOMAIN request_seq_ids
    IN [bonus |-> (bonus \ discarded) \cup added,
        mapping |-> [r \in keys |->
                        (IF r \in DOMAIN mapping THEN mapping[r] ELSE {})
                        \cup (IF r \in DOMAIN request_seq_ids THEN request_seq_ids[r] ELSE {})]]

\* the loop of execute_model over the batch (lines 480-487)
RECURSIVE batch_flags(_, _, _)
batch_flags(seq_group_metadata_list, i, acc) ==
    IF i > Len(seq_group_metadata_list) THEN acc
    ELSE LET sgm == seq_group_metadata_list[i]
         IN batch_flags(seq_group_metadata_list, i + 1,
                [all_prompt |-> acc.all_prompt /\ sgm.is_prompt,
                 atleast_one_prompt |-> acc.atleast_one_prompt \/ sgm.is_prompt,
                 all_zero_spec_tokens |-> acc.all_zero_spec_tokens
                                          /\ (sgm.num_speculative_tokens = 0)])

\* variant: all_zero_spec_tokens forgotten
no_spec_ignoring_zero_spec_tokens(num_lookahead_slots, disable_all_speculation, all_zero_spec_tokens) ==
    num_lookahead_slots = 0 \/ disable_all_speculation

no_spec_of(num_lookahead_slots, disable_all_speculation, all_zero_spec_tokens) ==
    num_lookahead_slots = 0 \/ disable_all_speculation \/ all_zero_spec_tokens

\* variant: the batch is not tested for being non-empty
prompt_only_assert_fails_on_empty(all_prompt, seq_group_metadata_list, num_lookahead_slots) ==
    all_prompt /\ num_lookahead_slots # 0

\* the assert of lines 489-493 fails
prompt_only_assert_fails(all_prompt, seq_group_metadata_list, num_lookahead_slots) ==
    all_prompt /\ Len(seq_group_metadata_list) > 0 /\ num_lookahead_slots # 0

broadcast_dict(num_lookahead_slots, no_spec, disable_all_speculation, atleast_one_prompt) ==
    [empty |-> FALSE,
     num_lookahead_slots |-> num_lookahead_slots,
     no_spec |-> no_spec,
     disable_all_speculation |-> disable_all_speculation,
     run_spec_proposer_for_prefill |-> atleast_one_prompt]

\* prepare_prefill_hidden_states: roll the rows by one
prepare_prefill_hidden_states(prefill_hidden_states) ==
    IF ~prefill_hidden_states.present THEN Absent
    ELSE LET t == prefill_hidden_states.value
             n == Len(t)
         IN Some([hidden |-> [r \in 1..n |-> IF r = 1 THEN t[n] ELSE t[r - 1]]])

\* variant: every row is taken, the rows of prompt logprobs too
AllRows(sampled_token_ids) == [r \in 1..Len(sampled_token_ids) |-> r]

\* rows of a [N, 1] tensor that hold a prediction: torch.where(t - INVALID)[0]
PredictingRows(sampled_token_ids) ==
    Indices([r \in 1..Len(sampled_token_ids) |->
                sampled_token_ids[r][1] - VLLM_INVALID_TOKEN_ID # 0],
            1, Len(sampled_token_ids))

\* the loop of _serialize_sampler_output_no_logprobs (lines 618-662); a token
\* of -2 stands for the IndexError of reading past the sampled rows
RECURSIVE serialize_loop(_, _, _, _)
serialize_loop(seq_group_metadata_list, sampled_token_ids_list, idx, output_index) ==
    IF idx > Len(seq_group_metadata_list) THEN <<>>
    ELSE LET sg == seq_group_metadata_list[idx]
             prompt_logprobs == IF sg.is_prompt /\ sg.prompt_logprobs > 0
                                THEN "dummy" ELSE None
         IN IF ~sg.do_sample
            THEN <<[samples |-> <<>>, prompt_logprobs |-> prompt_logprobs, step_index |-> 0]>>
                 \o serialize_loop(seq_group_metadata_list, sampled_token_ids_list,
                                   idx + 1, output_index)
            ELSE <<create_sequence_group_output(
                       IF output_index <= Len(sampled_token_ids_list)
                       THEN sampled_token_ids_list[output_index][1] ELSE -2,
                       -1, "zero", sg.seq_id, <<>>, prompt_logprobs, 0)>>
                 \o serialize_loop(seq_group_metadata_list, sampled_token_ids_list,
                                   idx + 1, output_index + 1)

serialize_sampler_output_no_logprobs(seq_group_metadata_list, sampler_output) ==
    LET n == Len(seq_group_metadata_list)
        any_prompt_logprobs ==
            \E i \in 1..n : seq_group_metadata_list[i].is_prompt
                             /\ seq_group_metadata_list[i].prompt_logprobs > 0
        sampled_token_ids_list ==
            IF any_prompt_logprobs
            THEN Gather(sampler_output.sampled_token_ids,
                        PredictingRows(sampler_output.sampled_token_ids))
            ELSE sampler_output.sampled_token_ids
    IN <<[outputs |-> serialize_loop(seq_group_metadata_list, sampled_token_ids_list, 1, 1),
          sampled_token_ids |-> Absent]>>

\* variant: the buffer is written whenever the scorer returned hidden states
buffer_left_without_hidden_states(hidden_states_present, seq_group_meta_with_hidden) ==
    ~hidden_states_present

\* the tests of lines 682 and 693-697: nothing is stored when the scorer
\* returned no hidden states or no sequence of the batch samples
buffer_left_alone(hidden_states_present, seq_group_meta_with_hidden) ==
    ~hidden_states_present \/ Len(seq_group_meta_with_hidden) = 0

\* _run_no_spec: the executions made, the list returned, the hidden states kept
run_no_spec(prev_hidden, seq_group_metadata_list, skip_proposer, nsps, no_logprobs, with_hidden) ==
    LET sampler_output == ScorerExecuteModel(seq_group_metadata_list, with_hidden)
        seq_group_meta_with_hidden ==
            SelectSeq(seq_group_metadata_list, LAMBDA sg : sg.do_sample)
        any_prompt == \E r \in 1..Len(seq_group_meta_with_hidden) :
                         seq_group_meta_with_hidden[r].is_prompt
        hidden_states ==
            IF any_prompt
            THEN Gather(sampler_output.hidden_states.value,
                        PredictingRows(sampler_output.sampled_token_ids))
            ELSE sampler_output.hidden_states.value
        new_hidden ==
            IF buffer_left_alone(sampler_output.hidden_states.present,
                                 seq_group_meta_with_hidden) THEN prev_hidden
            ELSE IF ~prev_hidden.present
            THEN Some(HiddenStates(hidden_states, seq_group_meta_with_hidden, Absent))
            ELSE Some(HiddenStatesPrune(
                        HiddenStatesUpdate(prev_hidden.value, hidden_states,
                                           seq_group_meta_with_hidden),
                        seq_group_meta_with_hidden))
    IN [execs |-> <<"scorer">> \o (IF skip_proposer THEN <<>>
                                    ELSE Repeat("proposer", nsps)),
        ret |-> IF no_logprobs
                THEN serialize_sampler_output_no_logprobs(seq_group_metadata_list,
                                                          sampler_output)
                ELSE <<[outputs |-> sampler_output.outputs, sampled_token_ids |-> Absent]>>,
        previous_hidden_states |-> new_hidden,
        req_previous_hidden_states |->
            IF skip_proposer THEN Absent
            ELSE prepare_prefill_hidden_states(sampler_output.prefill_hidden_states)]

\* proposer_worker.get_spec_proposals: k tokens for each sequence it
\* proposes for, none for the others
ProposerGetSpecProposals(seq_group_metadata_list, k, proposal_lens) ==
    LET n == Len(seq_group_metadata_list)
    IN [proposal_lens |-> proposal_lens,
        no_proposals |-> \A i \in 1..n : proposal_lens[i] = 0,
        proposal_token_ids |->
            [i \in 1..n |-> [j \in 1..k |->
                IF j <= proposal_lens[i] THEN Tok(seq_group_metadata_list[i].seq_id, j - 1)
                ELSE -1]]]

\* scorer.score_proposals: a row of k+1 target tokens for each sequence; a
\* sequence that does not sample (a non-terminal prefill chunk) has none
ScorerScoreProposals(seq_group_metadata_list, k, with_hidden) ==
    LET n == Len(seq_group_metadata_list)
    IN [token_ids |->
            [i \in 1..n |-> [j \in 1..(k + 1) |->
                IF seq_group_metadata_list[i].do_sample
                THEN Tok(seq_group_metadata_list[i].seq_id, j - 1)
                ELSE VLLM_INVALID_TOKEN_ID]],
        hidden_states |->
            IF with_hidden
            THEN Some([i \in 1..n |-> [j \in 1..(k + 1) |->
                        Hid(seq_group_metadata_list[i].seq_id, j - 1)]])
            ELSE Absent]

\* The acceptance sampler: row r keeps the first accept[r] - 1 draft tokens
\* and then emits one token of the target: the bonus token when every draft
\* token was kept, a recovered token otherwise; -1 pads the rest.
spec_decode_sampler(bonus_token_ids, draft_token_ids, accept, k) ==
    [r \in 1..Len(draft_token_ids) |-> [j \in 1..(k + 1) |->
        IF j > accept[r] THEN -1
        ELSE IF j = k + 1 THEN bonus_token_ids[r][1]
        ELSE draft_token_ids[r][j]]]

\* variant: a gather, accepted_token_ids = accepted_token_ids[original_indices]
gather_original_indices(rows, original_indices) ==
    [i \in 1..Len(rows) |-> rows[original_indices[i]]]

\* accepted_token_ids[original_indices] = accepted_token_ids.clone() (line 933)
restore_original_order(rows, original_indices) ==
    [i \in 1..Len(rows) |->
        rows[CHOOSE r \in 1..Len(original_indices) : original_indices[r] = i]]

\* variant: the slice written is [:, :1], the first column
pad_first_column(non_spec_token_ids, max_proposal_len) ==
    [r \in 1..Len(non_spec_token_ids) |-> [j \in 1..(max_proposal_len + 1) |->
        IF j = 1 THEN -1 ELSE non_spec_token_ids[r][1]]]

\* non_spec_token_ids.expand(-1, k + 1).clone(); non_spec_token_ids[:, 1:] = -1
pad_non_spec_token_ids(non_spec_token_ids, max_proposal_len) ==
    [r \in 1..Len(non_spec_token_ids) |-> [j \in 1..(max_proposal_len + 1) |->
        IF j = 1 THEN non_spec_token_ids[r][1] ELSE -1]]

\* variant: the rows without a proposal are put ahead of the sampler's
cat_non_spec_first(accepted_token_ids, non_spec_token_ids) ==
    non_spec_token_ids \o accepted_token_ids

\* torch.cat([accepted_token_ids, non_spec_token_ids]) (lines 928-929)
cat_accepted_token_ids(accepted_token_ids, non_spec_token_ids) ==
    accepted_token_ids \o non_spec_token_ids

\* variant: the hidden state of the last position of the row
gather_last_position(hidden_states_row, accepted_index) ==
    hidden_states_row[Len(hidden_states_row)]

\* hidden_states.gather(1, index).squeeze(1), for one row (lines 954-957)
gather_accepted_index(hidden_states_row, accepted_index) ==
    hidden_states_row[accepted_index + 1]

CountNonPad(row) == Cardinality({j \in 1..Len(row) : row[j] + 1 # 0})

\* _verify_tokens
verify_tokens(prev_hidden, seq_group_metadata_list, proposal_scores, proposals, max_proposal_len, accept) ==
    LET n == Len(seq_group_metadata_list)
        split == split_batch_by_proposal_len(seq_group_metadata_list,
                                             proposals.proposal_lens)
        spec_indices == split.spec_indices
        non_spec_indices == split.non_spec_indices
        original_indices == spec_indices \o non_spec_indices
        non_spec_token_ids == Gather(proposal_scores.token_ids, non_spec_indices)
        bonus_token_ids ==
            [r \in 1..Len(spec_indices) |->
                <<proposal_scores.token_ids[spec_indices[r]][max_proposal_len + 1]>>]
        proposal_token_ids == Gather(proposals.proposal_token_ids, spec_indices)
        \* the dict of lines 910-914, the generator named by the request owning it
        seeded_seqs == [idx \in {i \in 1..n : seq_group_metadata_list[i].seed} |->
                            seq_group_metadata_list[idx].request_id]
        sampled == spec_decode_sampler(bonus_token_ids, proposal_token_ids, accept,
                                       max_proposal_len)
        accepted_token_ids ==
            restore_original_order(
                cat_accepted_token_ids(
                    sampled, pad_non_spec_token_ids(non_spec_token_ids, max_proposal_len)),
                original_indices)
        terminal_metadata == SelectSeq(seq_group_metadata_list, LAMBDA sg : sg.do_sample)
        accepted_index == [i \in 1..n |-> CountNonPad(accepted_token_ids[i]) - 1]
        kept == Indices([i \in 1..n |-> accepted_index[i] # VLLM_INVALID_TOKEN_ID], 1, n)
        hs == proposal_scores.hidden_states.value
        assert_ok == Len(kept) = Len(terminal_metadata)
    IN [accepted_token_ids |-> accepted_token_ids,
        seeded_seqs |-> seeded_seqs,
        sampler_rows |-> Len(spec_indices),
        raised |-> proposal_scores.hidden_states.present /\ ~assert_ok,
        previous_hidden_states |->
            IF ~proposal_scores.hidden_states.present \/ ~assert_ok THEN prev_hidden
            ELSE Some(HiddenStates(
                    [r \in 1..Len(kept) |->
                        gather_accepted_index(hs[kept[r]], accepted_index[kept[r]])],
                    terminal_metadata,
                    Some([r \in 1..Len(kept) |-> hs[kept[r]][max_proposal_len]])))]

\* variant: the dummy lists are not sliced
TopKUncut(entry, num_logprobs) == Repeat(entry, num_logprobs)

\* get_all_num_logprobs, cut to the top-k lists' length
TopK(entry, num_logprobs) == Repeat(entry, Min(MaxLogprobs, num_logprobs))

\* the prefill records of _create_output_sampler_list (lines 1020-1080): one
\* for each prompt, up to the first sequence that is no prompt
RECURSIVE prefill_outputs(_, _, _, _, _)
prefill_outputs(seq_group_metadata_list, accepted_token_ids, no_logprobs, has_prompt_logprobs, i) ==
    IF i > Len(seq_group_metadata_list) THEN <<>>
    ELSE IF ~seq_group_metadata_list[i].is_prompt THEN <<>>
    ELSE LET sg == seq_group_metadata_list[i]
             plogs == IF has_prompt_logprobs THEN "target"
                      ELSE IF sg.prompt_logprobs > 0 THEN "dummy" ELSE None
             out == IF sg.do_sample
                    THEN create_sequence_group_output(
                            accepted_token_ids[i][1],
                            IF no_logprobs THEN -1 ELSE 1,
                            IF no_logprobs THEN "zero" ELSE "target",
                            sg.seq_id,
                            TopK(IF no_logprobs THEN "None" ELSE "topk", sg.logprobs),
                            plogs, 0)
                    ELSE create_sequence_group_output(
                            -1, 0, "neg_inf", sg.seq_id,
                            Repeat("-1", sg.logprobs), plogs, 0)
         IN <<[outputs |-> <<out>>, sampled_token_ids |-> Absent]>>
            \o prefill_outputs(seq_group_metadata_list, accepted_token_ids, no_logprobs,
                               has_prompt_logprobs, i + 1)

\* variant: the loop stops when some decode has no token at the step
some_decode_without_token(seq_group_metadata_list, accepted_token_ids_by_step, step_index) ==
    \E i \in 1..Len(seq_group_metadata_list) :
        /\ ~seq_group_metadata_list[i].is_prompt
        /\ accepted_token_ids_by_step[step_index][i] = -1

\* variant: the loop stops when the first decode has no token at the step
first_decode_without_token(seq_group_metadata_list, accepted_token_ids_by_step, step_index) ==
    \A i \in 1..Len(seq_group_metadata_list) :
        (/\ ~seq_group_metadata_list[i].is_prompt
         /\ \A h \in 1..(i - 1) : seq_group_metadata_list[h].is_prompt)
            => accepted_token_ids_by_step[step_index][i] = -1

\* the test that ends the decode loop (lines 1084-1088): all(token_id == -1
\* for ... if not sg.is_prompt)
no_decode_token(seq_group_metadata_list, accepted_token_ids_by_step, step_index) ==
    \A i \in 1..Len(seq_group_metadata_list) :
        ~seq_group_metadata_list[i].is_prompt
            => accepted_token_ids_by_step[step_index][i] = -1

\* variant: the inner loop skips no sequence
every_sequence_index(seq_group_metadata_list) ==
    [i \in 1..Len(seq_group_metadata_list) |-> i]

\* the sequences the inner loop of a decode record visits (lines 1091-1095):
\* every index of the batch but those of prompts
decode_sequence_indices(seq_group_metadata_list) ==
    LET n == Len(seq_group_metadata_list)
    IN Indices([i \in 1..n |-> ~seq_group_metadata_list[i].is_prompt], 1, n)

\* the decode records of _create_output_sampler_list (lines 1083-1114): one
\* for each step, up to the first step where no decode has a token
RECURSIVE decode_outputs(_, _, _, _, _)
decode_outputs(seq_group_metadata_list, accepted_token_ids_by_step, no_logprobs, num_steps, step_index) ==
    LET decodes == decode_sequence_indices(seq_group_metadata_list)
    IN IF step_index > num_steps THEN <<>>
       ELSE IF no_decode_token(seq_group_metadata_list, accepted_token_ids_by_step,
                               step_index) THEN <<>>
       ELSE <<[outputs |->
                 [r \in 1..Len(decodes) |->
                    LET sg == seq_group_metadata_list[decodes[r]]
                    IN create_sequence_group_output(
                         accepted_token_ids_by_step[step_index][decodes[r]],
                         IF no_logprobs THEN -1 ELSE 1,
                         IF no_logprobs THEN "zero" ELSE "target",
                         sg.seq_id,
                         TopK(IF no_logprobs THEN "None" ELSE "topk", sg.logprobs),
                         None, step_index - 1)],
               sampled_token_ids |-> Absent]>>
            \o decode_outputs(seq_group_metadata_list, accepted_token_ids_by_step,
                              no_logprobs, num_steps, step_index + 1)

\* _create_output_sampler_list: the records, and the bookkeeping it updates
create_output_sampler_list(bonus, mapping, seq_group_metadata_list, accepted_token_ids, no_logprobs, k) ==
    LET num_steps == k + 1
        accepted_token_ids_by_step == Transpose(accepted_token_ids, num_steps)
        ids == get_all_seq_ids_and_request_ids(seq_group_metadata_list)
        has_prompt_logprobs ==
            ~no_logprobs /\ \E i \in 1..Len(seq_group_metadata_list) :
                                seq_group_metadata_list[i].is_prompt
                                /\ seq_group_metadata_list[i].prompt_logprobs > 0
        tracked == track_sequences_with_bonus_tokens(bonus, mapping, ids.seq_ids,
                        ids.request_seq_ids, accepted_token_ids_by_step)
    IN [ret |-> prefill_outputs(seq_group_metadata_list, accepted_token_ids, no_logprobs,
                                has_prompt_logprobs, 1)
                \o decode_outputs(seq_group_metadata_list, accepted_token_ids_by_step,
                                  no_logprobs, num_steps, 1),
        bonus |-> tracked.bonus,
        mapping |-> tracked.mapping]

\* variant: a step without proposals is allowed whatever the flag
zero_draft_step_always_allowed(allow_zero, no_proposals) == FALSE

\* the test of lines 803-806: the step raises RuntimeError
zero_draft_step_raises(allow_zero, no_proposals) == ~allow_zero /\ no_proposals

\* variant: the buffer is attached to the request and kept
attach_previous_hidden_states(buffer) == [attached |-> buffer, buffer |-> buffer]

\* lines 782-783: the buffer is attached to the request and cleared
take_previous_hidden_states(buffer) == [attached |-> buffer, buffer |-> Absent]

\* the result of a driver step that made no speculative pass
NoSpecPart == [accepted_token_ids |-> <<>>, proposal_lens |-> <<>>,
               prefill_req |-> <<>>, proposer_hidden_states |-> Absent,
               scorer_hidden_states |-> Absent,
               seeded_seqs |-> <<>>, sampler_rows |-> 0]

\* _run_speculative_decoding_step; get_spec_proposals is k proposer executions
run_speculative_decoding_step(bonus, mapping, prev_hidden, seq_group_metadata_list, num_lookahead_slots, allow_zero, no_logprobs, env) ==
    LET n == Len(seq_group_metadata_list)
        proposals == ProposerGetSpecProposals(seq_group_metadata_list,
                                              num_lookahead_slots, env.proposal_lens)
        proposal_scores == ScorerScoreProposals(seq_group_metadata_list,
                                                num_lookahead_slots, env.with_hidden)
        split == split_batch_by_proposal_len(seq_group_metadata_list,
                                             proposals.proposal_lens)
        non_spec_seqs == Gather(seq_group_metadata_list, split.non_spec_indices)
        non_spec_indices ==
            SelectSeq(split.non_spec_indices,
                      LAMBDA idx : seq_group_metadata_list[idx].is_prompt)
        sync == Len(non_spec_indices) > 0
        taken == take_previous_hidden_states(prev_hidden)
        verified == verify_tokens(taken.buffer, seq_group_metadata_list, proposal_scores,
                                  proposals, num_lookahead_slots, env.accept)
        created == create_output_sampler_list(bonus, mapping, seq_group_metadata_list,
                        verified.accepted_token_ids, no_logprobs, num_lookahead_slots)
        proposed == Repeat("proposer", num_lookahead_slots)
        part == [accepted_token_ids |-> <<>>, proposal_lens |-> proposals.proposal_lens,
                 prefill_req |-> <<>>, proposer_hidden_states |-> taken.attached,
                 scorer_hidden_states |-> Absent,
                 seeded_seqs |-> <<>>, sampler_rows |-> 0]
    IN IF zero_draft_step_raises(allow_zero, proposals.no_proposals)
       THEN [execs |-> proposed, ret |-> <<>>, raised |-> "RuntimeError",
             bonus |-> bonus, mapping |-> mapping,
             previous_hidden_states |-> taken.buffer,
             req_previous_hidden_states |-> taken.attached,
             spec |-> part]
       ELSE LET execs == proposed \o <<"scorer">>
                         \o (IF sync THEN <<"proposer">> ELSE <<>>)
                req_hidden ==
                    IF sync /\ proposal_scores.hidden_states.present
                    THEN prepare_prefill_hidden_states(
                            Some(Gather(proposal_scores.hidden_states.value,
                                        non_spec_indices)))
                    ELSE Absent
                \* line 808: the slot is emptied before the scorer is invoked
                scorer_previous_hidden_states == Absent
                part2 == [part EXCEPT !.prefill_req = IF sync THEN non_spec_seqs ELSE <<>>,
                                      !.scorer_hidden_states =
                                            Some(scorer_previous_hidden_states),
                                      !.accepted_token_ids = verified.accepted_token_ids,
                                      !.seeded_seqs = verified.seeded_seqs,
                                      !.sampler_rows = verified.sampler_rows]
            IN IF verified.raised
               THEN [execs |-> execs, ret |-> <<>>, raised |-> "AssertionError",
                     bonus |-> bonus, mapping |-> mapping,
                     previous_hidden_states |-> taken.buffer,
                     req_previous_hidden_states |-> req_hidden,
                     spec |-> part2]
               ELSE [execs |-> execs, ret |-> created.ret, raised |-> "",
                     bonus |-> created.bonus, mapping |-> created.mapping,
                     previous_hidden_states |-> verified.previous_hidden_states,
                     req_previous_hidden_states |-> req_hidden,
                     spec |-> part2]

\* the record of a driver call that has not been made
NoCall == [kind |-> "none"]
NoRun == [kind |-> "none"]

\* execute_model on the driver rank with a request (lines 476-546): all it
\* does, as a record
execute_model(req, env) ==
    LET tracked == track_finished_requests(seq_with_bonus_token_in_last_step,
                        request_id_seq_id_mapping, req.finished_requests_ids)
        disable_all_speculation ==
            should_disable_all_speculation(disable_by_batch_size, req.running_queue_size)
        num_lookahead_slots == req.num_lookahead_slots
        flags == batch_flags(req.seq_group_metadata_list, 1,
                    [all_prompt |-> TRUE, atleast_one_prompt |-> FALSE,
                     all_zero_spec_tokens |-> TRUE])
        no_spec == no_spec_of(num_lookahead_slots, disable_all_speculation,
                              flags.all_zero_spec_tokens)
        data == broadcast_dict(num_lookahead_slots, no_spec, disable_all_speculation,
                               flags.atleast_one_prompt)
        list == maybe_disable_speculative_tokens(disable_all_speculation,
                                                 req.seq_group_metadata_list)
        finished_seq_ids ==
            UNION {request_id_seq_id_mapping[r] :
                    r \in req.finished_requests_ids \cap DOMAIN request_id_seq_id_mapping}
        base == [kind |-> "call", req |-> req, env |-> env,
                 finished_seq_ids |-> finished_seq_ids,
                 finished_with_bonus |->
                    finished_seq_ids \cap seq_with_bonus_token_in_last_step,
                 hidden_before |-> previous_hidden_states,
                 after_finished |-> tracked, flags |-> flags]
    IN IF prompt_only_assert_fails(flags.all_prompt, req.seq_group_metadata_list,
                                   num_lookahead_slots)
       THEN base @@
            [path |-> "none", raised |-> "AssertionError", broadcasts |-> <<>>,
             execs |-> <<>>, ret |-> <<>>, batch |-> req.seq_group_metadata_list,
             bonus |-> tracked.bonus, mapping |-> tracked.mapping,
             previous_hidden_states |-> previous_hidden_states,
             req_previous_hidden_states |-> Absent, spec |-> NoSpecPart]
       ELSE IF no_spec
       THEN base @@
            [path |-> "no_spec", raised |-> "", broadcasts |-> <<data>>, batch |-> list,
             bonus |-> tracked.bonus, mapping |-> tracked.mapping, spec |-> NoSpecPart]
            @@ run_no_spec(previous_hidden_states, list, disable_all_speculation,
                           num_spec_prefill_steps, disable_logprobs, env.with_hidden)
       ELSE base @@
            [path |-> "spec", broadcasts |-> <<data>>, batch |-> list]
            @@ run_speculative_decoding_step(tracked.bonus, tracked.mapping,
                    previous_hidden_states, list, num_lookahead_slots,
                    allow_zero_draft_token_step, disable_logprobs, env)

\* variant: the records are written before the dict is broadcast
driver_step_order_disable_first(r) ==
    <<"track_finished_requests">>
    \o (IF r.broadcasts = <<>> THEN <<>>
        ELSE (IF r.broadcasts[1].disable_all_speculation
                 THEN <<"disable_speculative_tokens">> ELSE <<>>)
             \o <<"broadcast">> \o r.execs)

\* the order of what a driver step r did: _track_finished_requests (line
\* 476), then, unless the prompt-only assert failed, broadcast_tensor_dict
\* (534), the loop of _maybe_disable_speculative_tokens (539-540) when all
\* speculation is disabled, and the executions of the path taken (542-546)
driver_step_order(r) ==
    <<"track_finished_requests">>
    \o (IF r.broadcasts = <<>> THEN <<>>
        ELSE <<"broadcast">>
             \o (IF r.broadcasts[1].disable_all_speculation
                    THEN <<"disable_speculative_tokens">> ELSE <<>>)
             \o r.execs)

\* variant: without a request nothing is broadcast
execute_model_none_silent ==
    [kind |-> "call_none", path |-> "shutdown", raised |-> "",
     broadcasts |-> <<>>, execs |-> <<>>, ret |-> <<>>]

\* execute_model on the driver rank without a request (lines 467-474)
execute_model_none ==
    [kind |-> "call_none", path |-> "shutdown", raised |-> "",
     broadcasts |-> <<EmptyDict>>, execs |-> <<>>, ret |-> <<>>]

\* variant: in a no-spec step the scorer runs after the proposer
non_driver_execs_scorer_last(data) ==
    (IF ~data.disable_all_speculation
        THEN Repeat("proposer", Max(data.num_lookahead_slots, 1)) ELSE <<>>)
    \o <<"scorer">>
    \o (IF ~data.no_spec /\ data.run_spec_proposer_for_prefill
           THEN <<"proposer">> ELSE <<>>)

\* variant: the proposer runs once for each lookahead slot, and not at all
\* when there is none
non_driver_execs_per_slot(data) ==
    (IF data.no_spec THEN <<"scorer">> ELSE <<>>)
    \o (IF ~data.disable_all_speculation
           THEN Repeat("proposer", data.num_lookahead_slots) ELSE <<>>)
    \o (IF ~data.no_spec
           THEN <<"scorer">> \o (IF data.run_spec_proposer_for_prefill
                                   THEN <<"proposer">> ELSE <<>>)
           ELSE <<>>)

\* _run_non_driver_rank after a non-empty dict arrived (lines 737-757): the
\* executions it makes, in order
non_driver_execs(data) ==
    (IF data.no_spec THEN <<"scorer">> ELSE <<>>)
    \o (IF ~data.disable_all_speculation
           THEN Repeat("proposer", Max(data.num_lookahead_slots, 1)) ELSE <<>>)
    \o (IF ~data.no_spec
           THEN <<"scorer">> \o (IF data.run_spec_proposer_for_prefill
                                   THEN <<"proposer">> ELSE <<>>)
           ELSE <<>>)

\* variant: the empty dict is not taken as the shutdown signal
run_non_driver_rank_never_false(data) ==
    [ret |-> TRUE, execs |-> IF data.empty THEN <<>> ELSE non_driver_execs(data)]

\* variant: called by execute_model the rank executes the scorer only
run_non_driver_rank_by_caller(data) ==
    IF data.empty THEN [ret |-> FALSE, execs |-> <<>>]
    ELSE [ret |-> TRUE,
          execs |-> IF worker_pc = "looping" THEN non_driver_execs(data) ELSE <<"scorer">>]

\* _run_non_driver_rank on the dict received: its return value and executions
run_non_driver_rank(data) ==
    IF data.empty THEN [ret |-> FALSE, execs |-> <<>>]
    ELSE [ret |-> TRUE, execs |-> non_driver_execs(data)]

\* variant: the rank is not tested, and the request's finished requests and
\* sequences are taken into the tables
execute_model_on_any_rank(self, execute_model_req, data) ==
    LET req == execute_model_req.value
        ids == get_all_seq_ids_and_request_ids(req.seq_group_metadata_list)
    IN [self |-> IF ~execute_model_req.present THEN self
                 ELSE [self EXCEPT !.mapping = ids.request_seq_ids],
        run |-> run_non_driver_rank(data), ret |-> <<>>]

\* execute_model on a rank that is not the driver (lines 463-465), self
\* being the three tables of that rank's coordinator: the dict is received
\* and acted on, the request is not read, the empty list is returned
non_driver_execute_model(self, execute_model_req, data) ==
    [self |-> self, run |-> run_non_driver_rank(data), ret |-> <<>>]

\* history: which sequences' last committing step gave them a bonus token.
\* A no-spec step commits one token, and no bonus token, for every
\* sequence that samples; a speculative step commits the tokens of a row.
CommitBonus(before, r) ==
    LET alive == {s \in before : RequestOf(s) \notin r.req.finished_requests_ids}
        n == Len(r.batch)
    IN IF r.raised # "" THEN alive
       ELSE IF r.path = "no_spec"
       THEN alive \ {r.batch[i].seq_id : i \in {j \in 1..n : r.batch[j].do_sample}}
       ELSE LET rows == r.spec.accepted_token_ids
                committed == {i \in 1..n : \E j \in 1..Len(rows[i]) : rows[i][j] # -1}
            IN (alive \ {r.batch[i].seq_id : i \in committed})
               \cup {r.batch[i].seq_id :
                       i \in {c \in committed : rows[c][Len(rows[c])] # -1}}

\* ---------------------------------------------------------------- actions
\* The broadcast is a collective: the driver enters the next one only when
\* the peer has received the last and is back at its own broadcast call.
DriverReady == call.kind = "none" /\ chan = <<>> /\ worker_pc # "ran"

ExecuteModel(req, env) ==
    /\ DriverReady
    /\ call' = execute_model(req, env)
    /\ seq_with_bonus_token_in_last_step' = call'.bonus
    /\ request_id_seq_id_mapping' = call'.mapping
    /\ previous_hidden_states' = call'.previous_hidden_states
    /\ chan' = chan \o call'.broadcasts
    /\ sent_step' = IF call'.broadcasts = <<>> THEN sent_step
                    ELSE [execs |-> call'.execs, raised |-> call'.raised]
    /\ last_commit_bonus' = CommitBonus(last_commit_bonus, call')
    /\ UNCHANGED <<config, worker_pc, worker>>

ExecuteModelNone ==
    /\ DriverReady
    /\ call' = execute_model_none
    /\ chan' = chan \o execute_model_none.broadcasts
    /\ sent_step' = [execs |-> execute_model_none.execs, raised |-> ""]
    /\ UNCHANGED <<config, seq_with_bonus_token_in_last_step, request_id_seq_id_mapping,
                   previous_hidden_states, worker_pc, worker, last_commit_bonus>>

\* the caller takes the list returned (or the error raised)
ReturnToEngine ==
    /\ call.kind # "none"
    /\ call' = NoCall
    /\ UNCHANGED <<config, seq_with_bonus_token_in_last_step, request_id_seq_id_mapping,
                   previous_hidden_states, chan, worker_pc, worker, sent_step,
                   last_commit_bonus>>

\* _run_no_spec called on its own
RunNoSpec(seq_group_metadata_list, skip_proposer, with_hidden) ==
    /\ call.kind = "none"
    /\ call' = [kind |-> "run_no_spec",
                seq_group_metadata_list |-> seq_group_metadata_list,
                skip_proposer |-> skip_proposer, with_hidden |-> with_hidden,
                hidden_before |-> previous_hidden_states]
               @@ run_no_spec(previous_hidden_states, seq_group_metadata_list,
                              skip_proposer, num_spec_prefill_steps, disable_logprobs,
                              with_hidden)
    /\ previous_hidden_states' = call'.previous_hidden_states
    /\ UNCHANGED <<config, seq_with_bonus_token_in_last_step, request_id_seq_id_mapping,
                   chan, worker_pc, worker, sent_step, last_commit_bonus>>

\* _verify_tokens called on its own, on what proposer and scorer answer
VerifyTokens(seq_group_metadata_list, max_proposal_len, env) ==
    /\ call.kind = "none"
    /\ call' = [kind |-> "verify_tokens",
                seq_group_metadata_list |-> seq_group_metadata_list,
                max_proposal_len |-> max_proposal_len, env |-> env]
               @@ verify_tokens(previous_hidden_states, seq_group_metadata_list,
                        ScorerScoreProposals(seq_group_metadata_list, max_proposal_len,
                                             env.with_hidden),
                        ProposerGetSpecProposals(seq_group_metadata_list,
                                                 max_proposal_len, env.proposal_lens),
                        max_proposal_len, env.accept)
    /\ previous_hidden_states' = call'.previous_hidden_states
    /\ UNCHANGED <<config, seq_with_bonus_token_in_last_step, request_id_seq_id_mapping,
                   chan, worker_pc, worker, sent_step, last_commit_bonus>>

\* _create_output_sampler_list called on its own
CreateOutputSamplerList(seq_group_metadata_list, accepted_token_ids, k) ==
    /\ call.kind = "none"
    /\ call' = [kind |-> "create_output_sampler_list",
                seq_group_metadata_list |-> seq_group_metadata_list,
                accepted_token_ids |-> accepted_token_ids, k |-> k]
               @@ create_output_sampler_list(seq_with_bonus_token_in_last_step,
                        request_id_seq_id_mapping, seq_group_metadata_list,
                        accepted_token_ids, disable_logprobs, k)
    /\ seq_with_bonus_token_in_last_step' = call'.bonus
    /\ request_id_seq_id_mapping' = call'.mapping
    /\ UNCHANGED <<config, previous_hidden_states, chan, worker_pc, worker, sent_step,
                   last_commit_bonus>>

\* _track_finished_requests called on its own
TrackFinishedRequests(finished_requests_ids) ==
    /\ call.kind = "none"
    /\ call' = [kind |-> "track_finished_requests",
                finished_requests_ids |-> finished_requests_ids,
                bonus_before |-> seq_with_bonus_token_in_last_step,
                mapping_before |-> request_id_seq_id_mapping]
               @@ track_finished_requests(seq_with_bonus_token_in_last_step,
                        request_id_seq_id_mapping, finished_requests_ids)
    /\ seq_with_bonus_token_in_last_step' = call'.bonus
    /\ request_id_seq_id_mapping' = call'.mapping
    /\ UNCHANGED <<config, previous_hidden_states, chan, worker_pc, worker, sent_step,
                   last_commit_bonus>>

\* HiddenStates.prune and then HiddenStates.update on the buffer, with one list
PruneThenUpdate(active_meta_list, hidden_states) ==
    /\ call.kind = "none"
    /\ previous_hidden_states.present
    /\ LET pruned == HiddenStatesPrune(previous_hidden_states.value, active_meta_list)
           updated == HiddenStatesUpdate(pruned, hidden_states, active_meta_list)
       IN /\ call' = [kind |-> "prune_then_update",
                      active_meta_list |-> active_meta_list,
                      hidden_states |-> hidden_states,
                      before |-> previous_hidden_states.value,
                      pruned |-> pruned, after |-> updated]
          /\ previous_hidden_states' = Some(updated)
    /\ UNCHANGED <<config, seq_with_bonus_token_in_last_step, request_id_seq_id_mapping,
                   chan, worker_pc, worker, sent_step, last_commit_bonus>>

\* the non-driver rank: start_worker_execution_loop is called
StartWorkerExecutionLoop ==
    /\ worker_pc = "idle"
    /\ worker_pc' = "looping"
    /\ UNCHANGED <<config, seq_with_bonus_token_in_last_step, request_id_seq_id_mapping,
                   previous_hidden_states, chan, worker, call, sent_step,
                   last_commit_bonus>>

Receive(via) ==
    /\ chan # <<>>
    /\ LET data == Head(chan)
           r == run_non_driver_rank(data)
       IN worker' = [kind |-> "run", via |-> via, data |-> data, ret |-> r.ret,
                     execs |-> r.execs, driver_execs |-> sent_step.execs,
                     driver_raised |-> sent_step.raised]
    /\ chan' = Tail(chan)
    /\ worker_pc' = "ran"
    /\ UNCHANGED <<config, seq_with_bonus_token_in_last_step, request_id_seq_id_mapping,
                   previous_hidden_states, call, sent_step, last_commit_bonus>>

\* one call of _run_non_driver_rank by the loop of start_worker_execution_loop
RunNonDriverRank == worker_pc = "looping" /\ Receive("loop")

\* execute_model on the non-driver rank (lines 463-465)
NonDriverExecuteModel == worker_pc = "idle" /\ Receive("execute_model")

\* the while test of start_worker_execution_loop, or the return of execute_model
WorkerContinue ==
    /\ worker_pc = "ran"
    /\ worker_pc' = IF worker.via = "loop" /\ worker.ret THEN "looping" ELSE "idle"
    /\ worker' = NoRun
    /\ UNCHANGED <<config, seq_with_bonus_token_in_last_step, request_id_seq_id_mapping,
                   previous_hidden_states, chan, call, sent_step, last_commit_bonus>>

\* the same receive, kept in the log of receipts
ReceiveLogged(via) ==
    /\ chan # <<>>
    /\ Len(received) < MaxReceipts
    /\ LET data == Head(chan)
           r == run_non_driver_rank(data)
       IN /\ worker' = [kind |-> "run", via |-> via, data |-> data, ret |-> r.ret,
                        execs |-> r.execs, driver_execs |-> sent_step.execs,
                        driver_raised |-> sent_step.raised]
          /\ received' = Append(received, [data |-> data, ret |-> r.ret, execs |-> r.execs])
    /\ chan' = Tail(chan)
    /\ worker_pc' = "ran"
    /\ UNCHANGED <<disable_by_batch_size, num_spec_prefill_steps,
                   allow_zero_draft_token_step, disable_logprobs, vocab_sizes, scorer,
                   seq_with_bonus_token_in_last_step, request_id_seq_id_mapping,
                   previous_hidden_states, call, sent_step, last_commit_bonus>>

RunNonDriverRankLogged == worker_pc = "looping" /\ ReceiveLogged("loop")

NonDriverExecuteModelLogged == worker_pc = "idle" /\ ReceiveLogged("execute_model")

\* execute_model called with a request, or with None, on the non-driver rank
NonDriverExecuteModelWith(execute_model_req) ==
    /\ worker_pc = "idle"
    /\ chan # <<>>
    /\ LET data == Head(chan)
           r == non_driver_execute_model(
                    [bonus |-> seq_with_bonus_token_in_last_step,
                     mapping |-> request_id_seq_id_mapping,
                     previous_hidden_states |-> previous_hidden_states],
                    execute_model_req, data)
       IN /\ worker' = [kind |-> "run", via |-> "execute_model", data |-> data,
                        ret |-> r.run.ret, execs |-> r.run.execs,
                        driver_execs |-> sent_step.execs,
                        driver_raised |-> sent_step.raised,
                        execute_model_req |-> execute_model_req, returned |-> r.ret]
          /\ seq_with_bonus_token_in_last_step' = r.self.bonus
          /\ request_id_seq_id_mapping' = r.self.mapping
          /\ previous_hidden_states' = r.self.previous_hidden_states
    /\ chan' = Tail(chan)
    /\ worker_pc' = "ran"
    /\ UNCHANGED <<config, call, sent_step, last_commit_bonus>>

\* the driver, on another process, broadcasts a dict
RemoteBroadcast(data) ==
    /\ chan = <<>>
    /\ worker_pc # "ran"
    /\ chan' = <<data>>
    /\ UNCHANGED <<config, seq_with_bonus_token_in_last_step, request_id_seq_id_mapping,
                   previous_hidden_states, worker_pc, worker, call, sent_step,
                   last_commit_bonus>>

WorkerNext ==
    \/ StartWorkerExecutionLoop
    \/ RunNonDriverRank
    \/ NonDriverExecuteModel
    \/ WorkerContinue

\* ------------------------------------------------------------- the inputs
Metas(ids, prompts, samples, nsts, plps, nlps, seeds) ==
    {m \in {SeqGroupMetadata(s, p, d, t, l, g, e) :
                s \in ids, p \in prompts, d \in samples, t \in nsts,
                l \in plps, g \in nlps, e \in seeds} :
        m.is_prompt \/ m.do_sample}

\* the scheduler's batches: distinct sequences, prompts before decodes
Batches(metas, maxlen) ==
    UNION {{b \in [1..n -> metas] :
                /\ \A i, j \in 1..n : i # j => b[i].seq_id # b[j].seq_id
                /\ \A i, j \in 1..n : (i < j /\ b[j].is_prompt) => b[i].is_prompt}
           : n \in 0..maxlen}

BatchRequests(b) == {b[i].request_id : i \in 1..Len(b)}

\* what the proposer may answer: nothing for a prompt or a sequence whose
\* speculation is off, k tokens or nothing for another
ProposalLens(b, k) ==
    {pl \in [1..Len(b) -> {0, k}] :
        \A i \in 1..Len(b) :
            (b[i].is_prompt \/ b[i].num_speculative_tokens = 0) => pl[i] = 0}

NumSpec(pl) == Cardinality({i \in DOMAIN pl : pl[i] # 0})

\* what the collaborators answer in a step: the proposal lengths, how many
\* tokens the acceptance sampler emits for each of its rows, and whether the
\* target model returns hidden states
Envs(b, k, counts, hiddens) ==
    UNION {[proposal_lens : {pl},
            accept : [1..NumSpec(pl) -> counts \cap 1..(k + 1)],
            with_hidden : hiddens]
           : pl \in ProposalLens(b, k)}

\* a step that takes the no-spec path consults neither proposer nor sampler
NoSpecEnvs(b, hiddens) ==
    [proposal_lens : {[i \in 1..Len(b) |-> 0]}, accept : {<<>>}, with_hidden : hiddens]

IsNoSpec(req) ==
    no_spec_of(req.num_lookahead_slots,
               should_disable_all_speculation(disable_by_batch_size, req.running_queue_size),
               \A i \in 1..Len(req.seq_group_metadata_list) :
                    req.seq_group_metadata_list[i].num_speculative_tokens = 0)

StepEnvs(req, counts, hiddens) ==
    IF IsNoSpec(req) THEN NoSpecEnvs(req.seq_group_metadata_list, hiddens)
    ELSE Envs(req.seq_group_metadata_list, req.num_lookahead_slots, counts, hiddens)

\* the scheduler never schedules a request it reports as finished
Requests(batches, ks, sizes, finished) ==
    {r \in {[seq_group_metadata_list |-> b, num_lookahead_slots |-> k,
             running_queue_size |-> q, finished_requests_ids |-> f] :
                b \in batches, k \in ks, q \in sizes, f \in finished} :
        r.finished_requests_ids \cap BatchRequests(r.seq_group_metadata_list) = {}}

\* the fields __init__ sets
Constructed ==
    /\ seq_with_bonus_token_in_last_step = {}
    /\ request_id_seq_id_mapping = <<>>
    /\ previous_hidden_states = Absent
    /\ chan = <<>>
    /\ worker_pc = "idle"
    /\ worker = NoRun
    /\ call = NoCall
    /\ sent_step = [execs |-> <<>>, raised |-> ""]
    /\ last_commit_bonus = {}
    /\ received = <<>>

\* a coordinator constructed over two workers of one vocab size, after init_device
InitState ==
    /\ Constructed
    /\ vocab_sizes = [proposer |-> 1, scorer |-> 1]
    /\ scorer = Some([vocab_size |-> 1])

\* ------------------------------------------------- Spec: the two ranks
\* Batches of prompts and decodes with speculation on or off, every
\* lookahead and queue size; the coordinator is built with any
\* disable_by_batch_size, num_spec_prefill_steps and zero-draft policy.
RankMetas == Metas(SeqIds, BOOLEAN, {TRUE}, {0, 1}, {0}, {0}, {FALSE})

RankRequests ==
    Requests(Batches(RankMetas, MaxSeqs), 0..MaxK, 0..MaxQueueSize, {{}})

Init ==
    /\ disable_by_batch_size \in 0..MaxQueueSize
    /\ num_spec_prefill_steps \in 1..MaxPrefillSteps
    /\ allow_zero_draft_token_step \in BOOLEAN
    /\ disable_logprobs = FALSE
    /\ InitState

DriverStep ==
    \E req \in RankRequests :
        \E env \in StepEnvs(req, {1}, {FALSE}) : ExecuteModel(req, env)

Next ==
    \/ DriverStep
    \/ ExecuteModelNone
    \/ ReturnToEngine
    \/ WorkerNext

Spec == Init /\ [][Next]_vars

\* ------------------------------------------------ claims on the two ranks
\* the non-driver rank has run _run_non_driver_rank on a non-empty dict
WorkerRan == worker.kind = "run" /\ ~worker.data.empty

\* the driver has completed a step that broadcast a dict
DriverRan == call.kind = "call" /\ call.path # "none" /\ call.raised = ""

\* C1: for every driver step that completes, the executions the non-driver
\* rank makes on receipt of the step's dict are the driver's executions of
\* that step, the same in number and in order.
C1_SameExecutions ==
    (WorkerRan /\ worker.driver_raised = "") => worker.execs = worker.driver_execs

ScorerPrecedesEveryProposer(execs) ==
    \A i, j \in 1..Len(execs) : (execs[i] = "scorer" /\ execs[j] = "proposer") => i < j

AProposerPrecedesScorer(execs) ==
    \E i, j \in 1..Len(execs) : i < j /\ execs[i] = "proposer" /\ execs[j] = "scorer"

\* the order of a speculative pass: k proposer executions, the scorer, and
\* then at most the one proposer execution that syncs the prefills
SpeculativeOrder(execs, k, has_prompt) ==
    /\ Len(execs) \in {k + 1, k + 2}
    /\ \A i \in 1..k : execs[i] = "proposer"
    /\ execs[k + 1] = "scorer"
    /\ Len(execs) = k + 2 => (has_prompt /\ execs[k + 2] = "proposer")

\* C2 as the specification states it: with a prefill in the batch the scorer
\* precedes every proposer execution of the step on each rank; with only
\* decodes in the batch a proposer execution precedes the scorer.
C2_OrderByBatch ==
    /\ (DriverRan /\ call.batch # <<>>) =>
            IF call.flags.atleast_one_prompt
            THEN ScorerPrecedesEveryProposer(call.execs)
            ELSE AProposerPrecedesScorer(call.execs)
    /\ (WorkerRan /\ worker.data.run_spec_proposer_for_prefill) =>
            ScorerPrecedesEveryProposer(worker.execs)

\* C2, amended: the order follows the path the step takes.  On the no-spec
\* path (every pure-prefill batch takes it) each rank executes the scorer
\* once, before every proposer execution.  On the speculative path (a mixed
\* batch takes it like a decode-only one) each rank executes the proposer
\* k >= 1 times, then the scorer, then at most one proposer execution, and
\* that one only when the batch holds a prefill.
C2_OrderByPath ==
    /\ DriverRan =>
            IF call.path = "no_spec"
            THEN /\ call.execs # <<>>
                 /\ call.execs[1] = "scorer"
                 /\ ScorerPrecedesEveryProposer(call.execs)
            ELSE /\ call.req.num_lookahead_slots >= 1
                 /\ SpeculativeOrder(call.execs, call.req.num_lookahead_slots,
                                     call.flags.atleast_one_prompt)
    /\ WorkerRan =>
            IF worker.data.no_spec
            THEN /\ worker.execs # <<>>
                 /\ worker.execs[1] = "scorer"
                 /\ ScorerPrecedesEveryProposer(worker.execs)
            ELSE /\ worker.data.num_lookahead_slots >= 1
                 /\ SpeculativeOrder(worker.execs, worker.data.num_lookahead_slots,
                                     worker.data.run_spec_proposer_for_prefill)

\* a mixed batch went down the speculative path on both ranks: the proposer
\* ran before the scorer, and once more after it for the prefill
C2_Witness ==
    /\ DriverRan /\ call.path = "spec" /\ call.flags.atleast_one_prompt
    /\ Len(call.execs) = call.req.num_lookahead_slots + 2
    /\ WorkerRan /\ ~worker.data.no_spec /\ worker.data.run_spec_proposer_for_prefill

\* C3: _run_non_driver_rank returns False, having executed nothing, exactly
\* when the dict received is empty, and True for every other dict; so the
\* loop of start_worker_execution_loop ends on the first empty dict and
\* never before one arrives.
C3_ShutdownOnEmpty ==
    /\ [](worker.kind = "run" =>
            /\ worker.ret = ~worker.data.empty
            /\ worker.data.empty => worker.execs = <<>>)
    /\ [][/\ worker_pc = "looping" => worker_pc' \in {"looping", "ran"}
          /\ (worker_pc = "ran" /\ worker.via = "loop" /\ worker_pc' # "ran") =>
                IF worker.data.empty THEN worker_pc' = "idle"
                ELSE worker_pc' = "looping"]_vars

\* the loop has received the empty dict after the driver's steps
C3_Witness ==
    /\ worker_pc = "ran" /\ worker.via = "loop"
    /\ worker.data.empty /\ ~worker.ret
    /\ DOMAIN request_id_seq_id_mapping # {}

DriverRanWithoutLookahead ==
    /\ DriverRan
    /\ call.req.num_lookahead_slots = 0
    /\ ~call.broadcasts[1].disable_all_speculation

\* the non-driver rank has received the dict of such a step
WorkerRanWithoutLookahead ==
    /\ WorkerRan
    /\ worker.data.num_lookahead_slots = 0
    /\ ~worker.data.disable_all_speculation

C27_ShutdownBroadcast ==
    /\ [](call.kind = "call_none" =>
            /\ call.broadcasts = <<EmptyDict>>
            /\ call.execs = <<>> /\ call.ret = <<>> /\ call.raised = "")
    /\ [](call.kind = "call" =>
            \A i \in 1..Len(call.broadcasts) : ~call.broadcasts[i].empty)
    /\ [][(call.kind # "call_none" /\ call'.kind = "call_none") =>
            /\ chan' = Append(chan, EmptyDict)
            /\ seq_with_bonus_token_in_last_step' = seq_with_bonus_token_in_last_step
            /\ request_id_seq_id_mapping' = request_id_seq_id_mapping
            /\ previous_hidden_states' = previous_hidden_states]_vars

\* execute_model was called without a request while the map held the
\* sequences of two requests, and the empty dict is in flight
C27_Witness ==
    /\ call.kind = "call_none"
    /\ chan = <<EmptyDict>>
    /\ Cardinality(DOMAIN request_id_seq_id_mapping) = 2

\* in the sequence ev every a comes before every b
Before(ev, a, b) == \A i, j \in 1..Len(ev) : (ev[i] = a /\ ev[j] = b) => i < j

Executions == {"scorer", "proposer"}

\* C26 as the specification states it: in a driver step the finished
\* requests are dropped, then the records' num_speculative_tokens are set
\* to 0 (when all speculation is disabled), then the dict is broadcast,
\* then scorer and proposer are executed.
C26_DisableThenBroadcast ==
    call.kind = "call" =>
        LET ev == driver_step_order(call)
        IN /\ ev[1] = "track_finished_requests"
           /\ Before(ev, "track_finished_requests", "disable_speculative_tokens")
           /\ Before(ev, "disable_speculative_tokens", "broadcast")
           /\ \A x \in Executions : Before(ev, "broadcast", x)

\* C26, amended: in a driver step the finished requests are dropped first;
\* then the dict is broadcast; then the records' num_speculative_tokens
\* are set to 0, when all speculation is disabled, and the dict has
\* disable_all_speculation true exactly then; then scorer and proposer are
\* executed.  A step that fails the prompt-only check only drops the
\* finished requests.
C26_BroadcastThenDisable ==
    call.kind = "call" =>
        LET ev == driver_step_order(call)
            written == \E i \in 1..Len(ev) : ev[i] = "disable_speculative_tokens"
        IN /\ ev[1] = "track_finished_requests"
           /\ Before(ev, "track_finished_requests", "broadcast")
           /\ Before(ev, "broadcast", "disable_speculative_tokens")
           /\ \A x \in Executions : /\ Before(ev, "broadcast", x)
                                     /\ Before(ev, "disable_speculative_tokens", x)
           /\ call.raised = "AssertionError" /\ call.path = "none" =>
                    ev = <<"track_finished_requests">>
           /\ call.path # "none" =>
                    /\ written = call.broadcasts[1].disable_all_speculation
                    /\ written = should_disable_all_speculation(disable_by_batch_size,
                                        call.req.running_queue_size)
                    /\ written => \A i \in 1..Len(call.batch) :
                                    call.batch[i].num_speculative_tokens = 0

\* a step with all speculation disabled, over records with speculative
\* tokens, that executed the scorer, a request having finished
C26_Witness ==
    /\ call.kind = "call" /\ call.path = "no_spec"
    /\ call.broadcasts[1].disable_all_speculation
    /\ \E i \in 1..Len(call.req.seq_group_metadata_list) :
            call.req.seq_group_metadata_list[i].num_speculative_tokens # 0
    /\ call.execs = <<"scorer">>
    /\ call.finished_seq_ids # {}

\* the prompts of a batch for which nothing was proposed, in batch order
PromptsWithoutProposal(list, proposal_lens) ==
    Gather(list, Indices([i \in 1..Len(list) |->
                            list[i].is_prompt /\ proposal_lens[i] = 0], 1, Len(list)))

\* C25: in a speculative step the proposer is executed once more, after the
\* scorer, exactly when the batch has a prompt with proposal length 0, and
\* the batch of that execution is these prompts and nothing else.
C25_PrefillSyncBatch ==
    (call.kind = "call" /\ call.path = "spec" /\ call.raised # "RuntimeError") =>
        LET prompts == PromptsWithoutProposal(call.batch, call.spec.proposal_lens)
            k == call.req.num_lookahead_slots
        IN /\ call.execs = Repeat("proposer", k) \o <<"scorer">>
                           \o (IF prompts # <<>> THEN <<"proposer">> ELSE <<>>)
           /\ call.spec.prefill_req = prompts

\* --------------------------------------- SpecTrack: the bonus-token tables
\* Steps of every kind, one after the other; the acceptance sampler emits
\* any number of tokens, so that bonus tokens occur; requests finish.
TrackInit ==
    /\ disable_by_batch_size \in 0..MaxQueueSize
    /\ num_spec_prefill_steps = 1
    /\ allow_zero_draft_token_step = TRUE
    /\ disable_logprobs = FALSE
    /\ InitState

TrackMetas == Metas(SeqIds, BOOLEAN, {TRUE}, {1}, {0}, {0}, {FALSE})

TrackRequests ==
    Requests(Batches(TrackMetas, MaxSeqs), 0..MaxK, 0..MaxQueueSize,
             {{}} \cup {{r} : r \in RequestIds})

TrackStep ==
    \E req \in TrackRequests :
        \E env \in StepEnvs(req, 1..(MaxK + 1), {FALSE}) : ExecuteModel(req, env)

TrackNext ==
    \/ TrackStep
    \/ ReturnToEngine
    \/ WorkerNext

SpecTrack == TrackInit /\ [][TrackNext]_vars

\* C5: a sequence id is in the bonus set iff the most recent step that
\* committed tokens for the sequence gave it a bonus token; a step run
\* without speculation commits a token and gives no bonus token.
C5_BonusSetTracksLastCommit ==
    seq_with_bonus_token_in_last_step = last_commit_bonus

\* C6: after a driver step whose finished_requests_ids contains r, no
\* sequence id recorded for r is in the bonus set and r is no key of the
\* request-to-sequences map.
C6_FinishedLeaveNoResidue ==
    call.kind = "call" =>
        /\ call.req.finished_requests_ids \cap DOMAIN request_id_seq_id_mapping = {}
        /\ call.finished_seq_ids \cap seq_with_bonus_token_in_last_step = {}

\* a request finished whose sequence was in the bonus set, while another
\* sequence stays in it
C6_Witness ==
    /\ call.kind = "call"
    /\ call.finished_with_bonus # {}
    /\ seq_with_bonus_token_in_last_step # {}

\* the driver has completed a step on the speculative path
SpeculativeStepReturned == call.kind = "call" /\ call.path = "spec" /\ call.raised = ""

\* C36: after a speculative step that returned, no sequence of the batch
\* whose proposal length was 0 is in the bonus set, whether it was in it
\* before the step or not: a sequence of the batch that is in the set had
\* proposal length k.
C36_NoBonusWithoutProposal ==
    SpeculativeStepReturned =>
        LET list == call.batch
            lens == call.spec.proposal_lens
        IN \A i \in 1..Len(list) :
            /\ lens[i] = 0 => list[i].seq_id \notin seq_with_bonus_token_in_last_step
            /\ list[i].seq_id \in seq_with_bonus_token_in_last_step
                    => lens[i] = call.req.num_lookahead_slots

\* a decode that was in the set gets no proposal in a step in which the
\* other decode gets one and its bonus token
C36_Witness ==
    /\ SpeculativeStepReturned
    /\ Len(call.batch) = 2
    /\ call.spec.proposal_lens[1] = 0
    /\ ~call.batch[1].is_prompt
    /\ call.batch[1].seq_id \in call.after_finished.bonus
    /\ call.batch[2].seq_id \in seq_with_bonus_token_in_last_step

\* the driver takes a step on the no-spec path
NoSpecStepTaken == call.kind = "none" /\ call'.kind = "call" /\ call'.path = "no_spec"

C40_BonusSeqsAreMapped ==
    \A s \in seq_with_bonus_token_in_last_step :
        \E r \in DOMAIN request_id_seq_id_mapping : s \in request_id_seq_id_mapping[r]

\* after a speculative step on two decodes of which one got its bonus
\* token: both are mapped, one is in the set
C40_Witness ==
    /\ SpeculativeStepReturned
    /\ Len(call.batch) = 2
    /\ Cardinality(seq_with_bonus_token_in_last_step) = 1
    /\ Cardinality(DOMAIN request_id_seq_id_mapping) = 2
    /\ \A i \in 1..2 : call.spec.proposal_lens[i] # 0

\* ------------------------------------------- SpecVerify: _verify_tokens
\* Batches of up to MaxVerifySeqs sequences, prompts (sampling or not) before
\* decodes; the proposer proposes for any of the decodes; the acceptance
\* sampler emits any number of tokens for each of its rows.
VerifyMetas == Metas(1..MaxVerifySeqs, BOOLEAN, BOOLEAN, {1}, {0}, {0}, {FALSE})

VerifyBatches ==
    {b \in Batches(VerifyMetas, MaxVerifySeqs) :
        \A i, j \in 1..Len(b) : i < j => b[i].seq_id < b[j].seq_id}

VerifyInit ==
    /\ disable_by_batch_size = 0
    /\ num_spec_prefill_steps = 1
    /\ allow_zero_draft_token_step = TRUE
    /\ disable_logprobs = FALSE
    /\ InitState

VerifyStep ==
    \E b \in VerifyBatches, k \in 1..MaxK :
        \E env \in Envs(b, k, 1..(MaxK + 1), {FALSE}) : VerifyTokens(b, k, env)

VerifyNext ==
    \/ VerifyStep
    \/ ReturnToEngine

SpecVerify == VerifyInit /\ [][VerifyNext]_vars

\* C7: after _verify_tokens, row i of accepted_token_ids belongs to the i-th
\* sequence of seq_group_metadata_list: every token of the row is a token of
\* that sequence, a sequence that samples has a token in its row, and the
\* row of a sequence the proposer proposed for is the row the acceptance
\* sampler returned for it.
C7_RowsInBatchOrder ==
    call.kind = "verify_tokens" =>
        LET list == call.seq_group_metadata_list
            rows == call.accepted_token_ids
            lens == call.env.proposal_lens
            sampler_row(i) == Cardinality({h \in 1..i : lens[h] # 0})
        IN /\ Len(rows) = Len(list)
           /\ \A i \in 1..Len(list) :
                /\ \A j \in 1..Len(rows[i]) :
                        rows[i][j] # -1 => rows[i][j] \div TokBase = list[i].seq_id
                /\ list[i].do_sample => rows[i][1] # -1
                /\ lens[i] # 0 => CountNonPad(rows[i]) = call.env.accept[sampler_row(i)]

\* three sequences, the first without a proposal: the concatenation holds
\* the rows in the order 2, 3, 1
C7_Witness ==
    /\ call.kind = "verify_tokens"
    /\ Len(call.seq_group_metadata_list) = 3
    /\ call.env.proposal_lens[1] = 0
    /\ call.env.proposal_lens[2] # 0
    /\ call.env.proposal_lens[3] # 0
    /\ call.env.accept[1] # call.env.accept[2]

\* C8: after _verify_tokens, accepted_token_ids has one row for each
\* sequence of the batch and k + 1 columns, and in every row a -1 is
\* followed by -1 only (the acceptance sampler's rows being so).
C8_ShapeAndPadding ==
    call.kind = "verify_tokens" =>
        LET rows == call.accepted_token_ids
        IN /\ Len(rows) = Len(call.seq_group_metadata_list)
           /\ \A i \in 1..Len(rows) :
                /\ Len(rows[i]) = call.max_proposal_len + 1
                /\ \A j, h \in 1..Len(rows[i]) :
                        (j < h /\ rows[i][j] = -1) => rows[i][h] = -1

\* a row of the sampler that rejects a draft token, beside the row of a
\* prompt that samples and the row of a prompt that does not
C8_Witness ==
    /\ call.kind = "verify_tokens"
    /\ call.max_proposal_len = MaxK
    /\ Len(call.seq_group_metadata_list) = 3
    /\ ~call.seq_group_metadata_list[1].do_sample
    /\ call.seq_group_metadata_list[2].is_prompt
    /\ call.seq_group_metadata_list[2].do_sample
    /\ call.env.proposal_lens[3] # 0
    /\ CountNonPad(call.accepted_token_ids[3]) = MaxK

\* what the acceptance sampler returned in the call: one row for each
\* sequence the proposer proposed for, in batch order
SamplerReturn(c) ==
    LET list == c.seq_group_metadata_list
        k == c.max_proposal_len
        spec == Indices([i \in 1..Len(list) |-> c.env.proposal_lens[i] # 0], 1, Len(list))
        scores == ScorerScoreProposals(list, k, c.env.with_hidden).token_ids
        drafts == ProposerGetSpecProposals(list, k, c.env.proposal_lens).proposal_token_ids
    IN spec_decode_sampler([r \in 1..Len(spec) |-> <<scores[spec[r]][k + 1]>>],
                           [r \in 1..Len(spec) |-> drafts[spec[r]]], c.env.accept, k)

\* C31: after _verify_tokens, the row of a sequence whose proposal length is
\* 0 holds the scorer's sampled token for the sequence in column 0 and -1 in
\* the columns 1..k, and the row of a sequence whose proposal length is k is
\* the row the acceptance sampler returned for the sequence.
C31_RowsBySplit ==
    call.kind = "verify_tokens" =>
        LET list == call.seq_group_metadata_list
            k == call.max_proposal_len
            rows == call.accepted_token_ids
            lens == call.env.proposal_lens
            scores == ScorerScoreProposals(list, k, call.env.with_hidden).token_ids
            sampler_row(i) == Cardinality({h \in 1..i : lens[h] # 0})
        IN \A i \in 1..Len(list) :
            /\ lens[i] = 0 =>
                    /\ rows[i][1] = scores[i][1]
                    /\ \A j \in 2..(k + 1) : rows[i][j] = -1
            /\ lens[i] = k => rows[i] = SamplerReturn(call)[sampler_row(i)]

\* a decode without a proposal between two decodes with one, the sampler
\* keeping every draft token of the first and none of the last
C31_Witness ==
    /\ call.kind = "verify_tokens"
    /\ call.max_proposal_len = MaxK
    /\ Len(call.seq_group_metadata_list) = 3
    /\ call.env.proposal_lens = <<MaxK, 0, MaxK>>
    /\ ~call.seq_group_metadata_list[2].is_prompt
    /\ call.env.accept = <<MaxK + 1, 1>>
    /\ call.accepted_token_ids[2][1] # -1

\* ---------------- SpecContract: _verify_tokens, the scorer's hidden states
\* The batches of SpecVerify, the scorer returning hidden states in every
\* call; the buffer a call leaves is the buffer the next call finds.
ContractInit ==
    /\ disable_by_batch_size = 0
    /\ num_spec_prefill_steps = 1
    /\ allow_zero_draft_token_step = TRUE
    /\ disable_logprobs = FALSE
    /\ InitState

ContractStep ==
    \E b \in VerifyBatches, k \in 1..MaxK :
        \E env \in Envs(b, k, 1..(MaxK + 1), {TRUE}) : VerifyTokens(b, k, env)

ContractNext ==
    \/ ContractStep
    \/ ReturnToEngine

SpecContract == ContractInit /\ [][ContractNext]_vars

\* C32: in _verify_tokens with scorer hidden states present, the rows of
\* accepted_token_ids that hold a token other than -1 are as many as the
\* do_sample sequences of the batch, the length assertion does not fail, and
\* afterwards the buffer holds one entry for each do_sample sequence and no
\* other, each the hidden state at position (accepted tokens - 1) of the
\* sequence's row.
C32_HiddenStatesContracted ==
    (call.kind = "verify_tokens" /\ call.env.with_hidden) =>
        LET list == call.seq_group_metadata_list
            rows == call.accepted_token_ids
            sampling == {i \in 1..Len(list) : list[i].do_sample}
            with_token == {i \in 1..Len(list) : CountNonPad(rows[i]) > 0}
        IN /\ Cardinality(with_token) = Cardinality(sampling)
           /\ ~call.raised
           /\ previous_hidden_states.present
           /\ DOMAIN previous_hidden_states.value.hidden
                = {list[i].seq_id : i \in sampling}
           /\ \A i \in sampling :
                previous_hidden_states.value.hidden[list[i].seq_id]
                    = Hid(list[i].seq_id, CountNonPad(rows[i]) - 1)

\* a prompt chunk that does not sample, and two decodes of which the
\* sampler keeps one draft token for the first and every draft token for
\* the second: the buffer holds the two decodes
C32_Witness ==
    /\ call.kind = "verify_tokens" /\ call.env.with_hidden
    /\ call.max_proposal_len = MaxK
    /\ Len(call.seq_group_metadata_list) = 3
    /\ ~call.seq_group_metadata_list[1].do_sample
    /\ call.env.proposal_lens = <<0, MaxK, MaxK>>
    /\ call.env.accept = <<2, MaxK + 1>>
    /\ DOMAIN previous_hidden_states.value.hidden = {2, 3}

\* ------------------------------- SpecOutput: _create_output_sampler_list
\* Any batch with prompts before decodes (a batch of prompts only, too), and
\* any accepted_token_ids of its shape whose rows are tokens of their
\* sequence followed by -1 only.
AcceptedRow(s, k, c) == [j \in 1..(k + 1) |-> IF j <= c THEN Tok(s, j - 1) ELSE -1]

AcceptedTokenIds(b, k) ==
    {[i \in 1..Len(b) |-> AcceptedRow(b[i].seq_id, k, c[i])] :
        c \in [1..Len(b) -> 0..(k + 1)]}

OutputInit ==
    /\ disable_by_batch_size = 0
    /\ num_spec_prefill_steps = 1
    /\ allow_zero_draft_token_step = TRUE
    /\ disable_logprobs \in BOOLEAN
    /\ InitState

OutputStep ==
    \E b \in Batches(TrackMetas, MaxSeqs), k \in 0..MaxK :
        \E rows \in AcceptedTokenIds(b, k) : CreateOutputSamplerList(b, rows, k)

OutputNext ==
    \/ OutputStep
    \/ ReturnToEngine

SpecOutput == OutputInit /\ [][OutputNext]_vars

\* the records _create_output_sampler_list returned after those of the prompts
DecodeRecords(c) ==
    LET list == c.seq_group_metadata_list
        prompts == Cardinality({i \in 1..Len(list) : list[i].is_prompt})
    IN SubSeq(c.ret, prompts + 1, Len(c.ret))

\* C9: _create_output_sampler_list emits at most k + 1 decode records, for
\* the step indices 0, 1, ... in order, each with the tokens of the decodes
\* at that step, and none for the first step at which every decode's token
\* is -1 nor for a later one; a batch without a decode gets no decode record.
C9_DecodeRecords ==
    call.kind = "create_output_sampler_list" =>
        LET list == call.seq_group_metadata_list
            rows == call.accepted_token_ids
            decodes == {i \in 1..Len(list) : ~list[i].is_prompt}
            all_pad == {j \in 1..(call.k + 1) : \A i \in decodes : rows[i][j] = -1}
            emitted == IF all_pad = {} THEN call.k + 1
                       ELSE (CHOOSE j \in all_pad : \A h \in all_pad : j <= h) - 1
            records == DecodeRecords(call)
        IN /\ Len(records) <= call.k + 1
           /\ Len(records) = emitted
           /\ decodes = {} => Len(records) = 0
           /\ \A r \in 1..Len(records) :
                /\ Len(records[r].outputs) = Cardinality(decodes)
                /\ \A o \in 1..Len(records[r].outputs) :
                    LET out == records[r].outputs[o]
                    IN /\ out.step_index = r - 1
                       /\ \E i \in decodes :
                            /\ out.samples[1].seq_id = list[i].seq_id
                            /\ out.samples[1].token_id = rows[i][r]

\* two decodes of which one has a token at step 1 and the other has not,
\* and neither has one at step 2: records for steps 0 and 1 only
C9_Witness ==
    /\ call.kind = "create_output_sampler_list"
    /\ call.k = MaxK
    /\ Len(call.seq_group_metadata_list) = 2
    /\ ~call.seq_group_metadata_list[1].is_prompt
    /\ CountNonPad(call.accepted_token_ids[1]) = 1
    /\ CountNonPad(call.accepted_token_ids[2]) = 2
    /\ Len(call.ret) = 2

\* C38: for every decode, its entries in the decode records, read in step
\* order with the -1 pads dropped, are the tokens other than -1 of its row
\* of accepted_token_ids, in order: the early stop drops, repeats and
\* reorders no accepted token.
C38_DecodeTokensPreserved ==
    call.kind = "create_output_sampler_list" =>
        LET list == call.seq_group_metadata_list
            rows == call.accepted_token_ids
            prompts == Cardinality({i \in 1..Len(list) : list[i].is_prompt})
            records == DecodeRecords(call)
            NotPad(t) == t # -1
        IN \A o \in 1..(Len(list) - prompts) :
            SelectSeq([r \in 1..Len(records) |-> records[r].outputs[o].samples[1].token_id],
                      NotPad)
                = SelectSeq(rows[prompts + o], NotPad)

\* two decodes, the first with one token and the second with every token
\* of its row: the first is padded in the later records
C38_Witness ==
    /\ call.kind = "create_output_sampler_list"
    /\ call.k = MaxK
    /\ Len(call.seq_group_metadata_list) = 2
    /\ ~call.seq_group_metadata_list[1].is_prompt
    /\ CountNonPad(call.accepted_token_ids[1]) = 1
    /\ CountNonPad(call.accepted_token_ids[2]) = MaxK + 1
    /\ Len(call.ret) = MaxK + 1

\* C33: for a batch of prompts followed by decodes,
\* _create_output_sampler_list returns first one record for each prompt, in
\* batch order, each with the single entry of its prompt (the token -1 for a
\* chunk that does not sample), and then the decode records, each with one
\* entry for each decode, in batch order: no prompt has an entry in a decode
\* record and no decode in a prefill record.
C33_PrefillsThenDecodes ==
    call.kind = "create_output_sampler_list" =>
        LET list == call.seq_group_metadata_list
            rows == call.accepted_token_ids
            prompts == Cardinality({i \in 1..Len(list) : list[i].is_prompt})
            decodes == Len(list) - prompts
            ret == call.ret
        IN /\ Len(ret) >= prompts
           /\ \A i \in 1..prompts :
                /\ Len(ret[i].outputs) = 1
                /\ Len(ret[i].outputs[1].samples) = 1
                /\ ret[i].outputs[1].samples[1].seq_id = list[i].seq_id
                /\ ret[i].outputs[1].samples[1].token_id
                        = IF list[i].do_sample THEN rows[i][1] ELSE -1
           /\ \A r \in (prompts + 1)..Len(ret) :
                /\ Len(ret[r].outputs) = decodes
                /\ \A o \in 1..decodes :
                    /\ Len(ret[r].outputs[o].samples) = 1
                    /\ ret[r].outputs[o].samples[1].seq_id = list[prompts + o].seq_id

\* a prompt chunk that does not sample ahead of a decode with two tokens:
\* one prefill record, two decode records
C33_Witness ==
    /\ call.kind = "create_output_sampler_list"
    /\ Len(call.seq_group_metadata_list) = 2
    /\ call.seq_group_metadata_list[1].is_prompt
    /\ ~call.seq_group_metadata_list[1].do_sample
    /\ ~call.seq_group_metadata_list[2].is_prompt
    /\ CountNonPad(call.accepted_token_ids[2]) = 2
    /\ Len(call.ret) = 3

\* ----------------------------------------------- SpecNoSpec: _run_no_spec
\* Batches of prompts (sampling or not, with or without prompt logprobs)
\* and decodes; logprobs disabled or not; the target model returning hidden
\* states or not.
NoSpecMetas == Metas(SeqIds, BOOLEAN, BOOLEAN, {0}, {0, 1}, {0}, {FALSE})

NoSpecInit ==
    /\ disable_by_batch_size = 0
    /\ num_spec_prefill_steps \in 1..MaxPrefillSteps
    /\ allow_zero_draft_token_step = TRUE
    /\ disable_logprobs \in BOOLEAN
    /\ InitState

NoSpecStep ==
    \E b \in Batches(NoSpecMetas, MaxSeqs), skip_proposer \in BOOLEAN,
       with_hidden \in BOOLEAN : RunNoSpec(b, skip_proposer, with_hidden)

NoSpecNext ==
    \/ NoSpecStep
    \/ ReturnToEngine

SpecNoSpec == NoSpecInit /\ [][NoSpecNext]_vars

\* C10: _run_no_spec with skip_proposer true makes no proposer execution
\* and exactly one scorer execution, and returns a single record that
\* carries, for each sequence, the token the scorer sampled for it (and no
\* sample for a sequence the scorer sampled nothing for).
C10_PassThrough ==
    (call.kind = "run_no_spec" /\ call.skip_proposer) =>
        LET list == call.seq_group_metadata_list
            scored == ScorerExecuteModel(list, call.with_hidden).outputs
        IN /\ call.execs = <<"scorer">>
           /\ Len(call.ret) = 1
           /\ Len(call.ret[1].outputs) = Len(list)
           /\ \A i \in 1..Len(list) :
                LET out == call.ret[1].outputs[i].samples
                IN /\ Len(out) = Len(scored[i].samples)
                   /\ \A h \in 1..Len(out) :
                        /\ out[h].seq_id = list[i].seq_id
                        /\ out[h].token_id = scored[i].samples[h].token_id

\* logprobs disabled, and a prompt logprobs row ahead of a sampled row: the
\* record is rebuilt from the sampled token ids
C10_Witness ==
    /\ call.kind = "run_no_spec" /\ call.skip_proposer
    /\ disable_logprobs
    /\ Len(call.seq_group_metadata_list) = 2
    /\ call.seq_group_metadata_list[1].is_prompt
    /\ call.seq_group_metadata_list[1].prompt_logprobs > 0
    /\ ~call.seq_group_metadata_list[1].do_sample
    /\ call.seq_group_metadata_list[2].do_sample

\* the sequences of the batch that sample: decodes and terminal prefill chunks
SamplingSeqIds(list) == {list[i].seq_id : i \in {j \in 1..Len(list) : list[j].do_sample}}

\* the sequence ids a buffer holds hidden states for
BufferSeqIds(buffer) == IF buffer.present THEN DOMAIN buffer.value.hidden ELSE {}

\* C11 as the specification states it: _run_no_spec with skip_proposer true
\* leaves previous_hidden_states as it was before the call, whether or not
\* the scorer returned hidden states.
C11_BufferUnchanged ==
    (call.kind = "run_no_spec" /\ call.skip_proposer) =>
        previous_hidden_states = call.hidden_before

\* C11, amended: with skip_proposer true the proposer is not executed and
\* the request's previous_hidden_states slot is not written; the buffer is
\* as before the call when the scorer returned no hidden states or no
\* sequence of the batch samples, and otherwise it holds an entry for
\* exactly the sequences of the batch that sample.
C11_BufferFollowsScorer ==
    (call.kind = "run_no_spec" /\ call.skip_proposer) =>
        LET sampling == SamplingSeqIds(call.seq_group_metadata_list)
        IN /\ \A i \in 1..Len(call.execs) : call.execs[i] # "proposer"
           /\ call.req_previous_hidden_states = Absent
           /\ IF ~call.with_hidden \/ sampling = {}
              THEN previous_hidden_states = call.hidden_before
              ELSE /\ previous_hidden_states.present
                   /\ DOMAIN previous_hidden_states.value.hidden = sampling

\* the buffer held another sequence's hidden state; the skipped-proposer
\* call replaced it by the hidden state of the sequence of the batch
C11_Witness ==
    /\ call.kind = "run_no_spec" /\ call.skip_proposer /\ call.with_hidden
    /\ call.hidden_before.present
    /\ DOMAIN call.hidden_before.value.hidden = {1, 2}
    /\ previous_hidden_states.present
    /\ DOMAIN previous_hidden_states.value.hidden = {2}

\* C39: after _run_no_spec in which the scorer returned hidden states and a
\* sequence of the batch has do_sample, the sequence ids the buffer holds are
\* those of the do_sample sequences of the batch, the entries of all others
\* being pruned; when no sequence of the batch has do_sample, or the scorer
\* returned no hidden states, the buffer is as it was before the call.
C39_BufferAfterNoSpec ==
    call.kind = "run_no_spec" =>
        LET sampling == SamplingSeqIds(call.seq_group_metadata_list)
        IN /\ (call.with_hidden /\ sampling # {}) =>
                    /\ previous_hidden_states.present
                    /\ BufferSeqIds(previous_hidden_states) = sampling
           /\ (~call.with_hidden \/ sampling = {}) =>
                    previous_hidden_states = call.hidden_before

\* the buffer held sequence 1; the proposer is run, and the batch is a
\* prompt chunk of sequence 1 that does not sample ahead of the decode 2:
\* the entry of sequence 1 is pruned
C39_Witness ==
    /\ call.kind = "run_no_spec" /\ ~call.skip_proposer /\ call.with_hidden
    /\ call.hidden_before.present
    /\ 1 \in DOMAIN call.hidden_before.value.hidden
    /\ Len(call.seq_group_metadata_list) = 2
    /\ call.seq_group_metadata_list[1].seq_id = 1
    /\ ~call.seq_group_metadata_list[1].do_sample
    /\ BufferSeqIds(previous_hidden_states) = {2}

\* ------------------------------------------ more claims on the two ranks
\* the driver's step had running_queue_size >= disable_by_batch_size
StepOverThreshold ==
    /\ call.kind = "call"
    /\ disable_by_batch_size # 0
    /\ call.req.running_queue_size >= disable_by_batch_size

AllSpeculationOff ==
    /\ Len(call.broadcasts) = 1
    /\ call.broadcasts[1].no_spec
    /\ call.broadcasts[1].disable_all_speculation
    /\ call.path = "no_spec"
    /\ \A i \in 1..Len(call.batch) : call.batch[i].num_speculative_tokens = 0

AllPrompts(list) == \A i \in 1..Len(list) : list[i].is_prompt

\* C16: a driver step on a non-empty batch of prompts only with
\* num_lookahead_slots # 0 fails before anything is broadcast and before any
\* scorer or proposer execution, and returns nothing; a step on the empty
\* batch with num_lookahead_slots # 0 does not fail.
C16_PromptOnlyWithLookaheadFails ==
    (call.kind = "call" /\ call.req.num_lookahead_slots # 0
        /\ AllPrompts(call.req.seq_group_metadata_list)) =>
        IF call.req.seq_group_metadata_list # <<>>
        THEN /\ call.raised = "AssertionError"
             /\ call.broadcasts = <<>>
             /\ chan = <<>>
             /\ call.execs = <<>>
             /\ call.ret = <<>>
        ELSE /\ call.raised = ""
             /\ Len(call.broadcasts) = 1

\* two prompts scheduled with lookahead slots: the step has failed
C16_Witness ==
    /\ call.kind = "call" /\ call.req.num_lookahead_slots # 0
    /\ Len(call.req.seq_group_metadata_list) = 2
    /\ AllPrompts(call.req.seq_group_metadata_list)
    /\ call.raised = "AssertionError"

\* ------------------------------------ SpecDraft: what the proposer answers
\* Driver steps with lookahead slots; the proposer answers with proposals
\* for any of the decodes or for none, of any length up to k; zero-proposal
\* steps are allowed or forbidden; the sampler may give bonus tokens.
DraftProposalLens(b, k) ==
    {pl \in [1..Len(b) -> 0..k] :
        \A i \in 1..Len(b) :
            (b[i].is_prompt \/ b[i].num_speculative_tokens = 0) => pl[i] = 0}

DraftEnvs(b, k, counts, hiddens) ==
    UNION {[proposal_lens : {pl},
            accept : [1..NumSpec(pl) -> counts \cap 1..(k + 1)],
            with_hidden : hiddens]
           : pl \in DraftProposalLens(b, k)}

DraftRequests == Requests(Batches(TrackMetas, MaxSeqs), 1..MaxK, {0}, {{}})

DraftInit ==
    /\ disable_by_batch_size = 0
    /\ num_spec_prefill_steps = 1
    /\ allow_zero_draft_token_step \in BOOLEAN
    /\ disable_logprobs = FALSE
    /\ InitState

DraftStep ==
    \E req \in DraftRequests :
        \E env \in DraftEnvs(req.seq_group_metadata_list, req.num_lookahead_slots,
                              {1, req.num_lookahead_slots + 1}, {FALSE}) :
            ExecuteModel(req, env)

DraftNext ==
    \/ DraftStep
    \/ ReturnToEngine
    \/ WorkerNext

SpecDraft == DraftInit /\ [][DraftNext]_vars

\* a speculative step for which the proposer proposed nothing
ZeroProposalStep ==
    /\ call.kind = "call" /\ call.path = "spec"
    /\ \A i \in 1..Len(call.spec.proposal_lens) : call.spec.proposal_lens[i] = 0

\* C17: when zero-proposal steps are forbidden and the proposer returns
\* no proposals, the speculative step raises: the driver does not execute
\* the scorer, nothing is returned, and the bonus set (and the request map)
\* stay as they were; when they are allowed, the step does not fail.
C17_ZeroDraftStep ==
    ZeroProposalStep =>
        IF ~allow_zero_draft_token_step
        THEN /\ call.raised = "RuntimeError"
             /\ \A i \in 1..Len(call.execs) : call.execs[i] # "scorer"
             /\ call.ret = <<>>
             /\ seq_with_bonus_token_in_last_step = call.after_finished.bonus
             /\ request_id_seq_id_mapping = call.after_finished.mapping
        ELSE /\ call.raised = ""
             /\ \E i \in 1..Len(call.execs) : call.execs[i] = "scorer"
             /\ call.ret # <<>>

\* a decode that got a bonus token in an earlier step is in a step for
\* which nothing is proposed, and the step has failed
C17_Witness ==
    /\ ZeroProposalStep /\ ~allow_zero_draft_token_step
    /\ call.raised = "RuntimeError"
    /\ \E i \in 1..Len(call.batch) :
            /\ ~call.batch[i].is_prompt
            /\ call.batch[i].seq_id \in seq_with_bonus_token_in_last_step

\* C18: a speculative step in which the proposer returns a proposal length
\* that is neither 0 nor k raises and returns nothing.
C18_BadProposalLenAborts ==
    (/\ call.kind = "call" /\ call.path = "spec"
     /\ \E i \in 1..Len(call.spec.proposal_lens) :
            call.spec.proposal_lens[i] \notin {0, call.req.num_lookahead_slots}) =>
        /\ call.raised # ""
        /\ call.ret = <<>>

C34_AbortBeforeBroadcast ==
    (WorkerRan /\ worker.execs # <<>>) => worker.driver_raised = ""

\* ------------------------- SpecFinished: _track_finished_requests alone
\* Steps' outputs fill the two tables; requests finish one or several at a
\* time, among them requests that have left the tables already and a
\* request that was never scheduled.
FinishedInit ==
    /\ disable_by_batch_size = 0
    /\ num_spec_prefill_steps = 1
    /\ allow_zero_draft_token_step = TRUE
    /\ disable_logprobs \in BOOLEAN
    /\ InitState

FinishedOutputStep ==
    \E b \in Batches(TrackMetas, MaxSeqs) :
        \E rows \in AcceptedTokenIds(b, 1) : CreateOutputSamplerList(b, rows, 1)

FinishedTrackStep ==
    \E finished_requests_ids \in SUBSET RequestIds :
        TrackFinishedRequests(finished_requests_ids)

FinishedNext ==
    \/ FinishedOutputStep
    \/ FinishedTrackStep
    \/ ReturnToEngine

SpecFinished == FinishedInit /\ [][FinishedNext]_vars

\* C20: _track_finished_requests raises no error whatever ids it is given;
\* when none of them is a key of the request-to-sequences map it leaves
\* that map and the bonus set as they were, with no entry for the unknown
\* ids; applied again to the same ids it changes nothing.
C20_UnknownIdsIdempotent ==
    call.kind = "track_finished_requests" =>
        /\ call.raised = ""
        /\ call.finished_requests_ids \cap DOMAIN request_id_seq_id_mapping = {}
        /\ call.finished_requests_ids \cap DOMAIN call.mapping_before = {} =>
                /\ request_id_seq_id_mapping = call.mapping_before
                /\ seq_with_bonus_token_in_last_step = call.bonus_before
        /\ track_finished_requests(seq_with_bonus_token_in_last_step,
                request_id_seq_id_mapping, call.finished_requests_ids)
           = [bonus |-> seq_with_bonus_token_in_last_step,
              mapping |-> request_id_seq_id_mapping, raised |-> ""]

\* a request that is no key of the map finished while the map and the
\* bonus set held other requests' entries
C20_Witness ==
    /\ call.kind = "track_finished_requests"
    /\ call.finished_requests_ids # {}
    /\ call.finished_requests_ids \cap DOMAIN call.mapping_before = {}
    /\ request_id_seq_id_mapping # <<>>
    /\ seq_with_bonus_token_in_last_step # {}

\* ---------------------------- SpecDevice: construction and init_device
MaxVocab == 2

\* variant: the sizes are not compared
vocab_sizes_unchecked(sizes) == TRUE

\* the assert of _vocab_size (line 1289) holds
vocab_sizes_consistent(sizes) == sizes.proposer = sizes.scorer

\* init_device: the calls it makes on its collaborators, in order, and the
\* scorer it builds; _vocab_size is first read when the scorer is built
init_device(sizes) ==
    LET before == <<"scorer_worker.init_device", "proposer_worker.init_device",
                    "scorer_worker.load_model", "proposer_worker.load_model",
                    "metrics.init_tensors", "spec_decode_sampler.init_tensors">>
    IN IF vocab_sizes_consistent(sizes)
       THEN [execs |-> before \o <<"configure_model_sampler_for_spec_decode">>,
             raised |-> "", scorer |-> Some([vocab_size |-> sizes.proposer])]
       ELSE [execs |-> before, raised |-> "AssertionError", scorer |-> Absent]

InitDevice ==
    /\ call.kind = "none"
    /\ ~scorer.present
    /\ call' = [kind |-> "init_device"] @@ init_device(vocab_sizes)
    /\ scorer' = call'.scorer
    /\ UNCHANGED <<disable_by_batch_size, num_spec_prefill_steps,
                   allow_zero_draft_token_step, disable_logprobs, vocab_sizes,
                   seq_with_bonus_token_in_last_step, request_id_seq_id_mapping,
                   previous_hidden_states, chan, worker_pc, worker, sent_step,
                   last_commit_bonus, received>>

\* the coordinator as __init__ leaves it, over workers of any vocab sizes
DeviceInit ==
    /\ disable_by_batch_size = 0
    /\ num_spec_prefill_steps = 1
    /\ allow_zero_draft_token_step = TRUE
    /\ disable_logprobs \in BOOLEAN
    /\ Constructed
    /\ vocab_sizes \in [proposer : 1..MaxVocab, scorer : 1..MaxVocab]
    /\ scorer = Absent

\* the engine runs steps on a coordinator whose init_device has returned
DeviceStep ==
    /\ scorer.present
    /\ \E b \in Batches(NoSpecMetas, MaxSeqs) : RunNoSpec(b, FALSE, FALSE)

DeviceNext ==
    \/ InitDevice
    \/ DeviceStep
    \/ ReturnToEngine

SpecDevice == DeviceInit /\ [][DeviceNext]_vars

\* C19 as the specification states it: proposer and scorer of different
\* vocab sizes are refused at construction, so init_device is never run
\* over them.
C19_RaisedAtConstruction ==
    vocab_sizes.proposer # vocab_sizes.scorer => call.kind # "init_device"

\* C19, amended: __init__ does not compare the vocab sizes; init_device
\* does, when it builds the scorer, after it has initialised both workers,
\* loaded both models and initialised the metrics' and the sampler's
\* tensors: it raises AssertionError exactly when the sizes differ, and
\* then self.scorer is not set.  Once init_device has returned the sizes
\* are equal.
C19_RaisedByInitDevice ==
    /\ scorer.present => vocab_sizes.proposer = vocab_sizes.scorer
    /\ call.kind = "init_device" =>
            /\ (call.raised = "AssertionError") = (vocab_sizes.proposer # vocab_sizes.scorer)
            /\ (call.raised = "") = (vocab_sizes.proposer = vocab_sizes.scorer)
            /\ scorer.present = (call.raised = "")
            /\ Len(call.execs) >= 6
            /\ call.execs[1] = "scorer_worker.init_device"
            /\ call.execs[2] = "proposer_worker.init_device"
            /\ call.execs[3] = "scorer_worker.load_model"
            /\ call.execs[4] = "proposer_worker.load_model"

\* init_device has failed over workers of different vocab sizes, after
\* both were initialised
C19_Witness ==
    /\ call.kind = "init_device" /\ call.raised = "AssertionError"
    /\ vocab_sizes.proposer # vocab_sizes.scorer
    /\ ~scorer.present
    /\ call.execs[2] = "proposer_worker.init_device"

\* ------------------------------------- SpecLogprobs: the logprob fields
\* Driver steps on both paths with logprobs disabled or not; sequences ask
\* for no logprobs, for as many as the scorer is configured for, or for more.
MaxNumLogprobs == MaxLogprobs + 1

LogprobsMetas ==
    Metas(SeqIds, {TRUE}, BOOLEAN, {1}, {0, 1}, 0..MaxNumLogprobs, {FALSE})
    \cup Metas(SeqIds, {FALSE}, {TRUE}, {1}, {0}, 0..MaxNumLogprobs, {FALSE})

LogprobsInit ==
    /\ disable_by_batch_size = 0
    /\ num_spec_prefill_steps = 1
    /\ allow_zero_draft_token_step = TRUE
    /\ disable_logprobs \in BOOLEAN
    /\ InitState

\* the no-spec path
LogprobsNoSpecStep ==
    \E b \in Batches(LogprobsMetas, MaxSeqs) : RunNoSpec(b, FALSE, FALSE)

\* the speculative path, from the accepted token ids on
LogprobsOutputStep ==
    \E b \in Batches(LogprobsMetas, MaxSeqs) :
        \E rows \in AcceptedTokenIds(b, 1) : CreateOutputSamplerList(b, rows, 1)

LogprobsNext ==
    \/ LogprobsNoSpecStep
    \/ LogprobsOutputStep
    \/ ReturnToEngine

SpecLogprobs == LogprobsInit /\ [][LogprobsNext]_vars

\* the samples of the records a call returned
Samples(c) ==
    UNION {UNION {{c.ret[r].outputs[o].samples[h] :
                        h \in 1..Len(c.ret[r].outputs[o].samples)} :
                  o \in 1..Len(c.ret[r].outputs)} :
           r \in 1..Len(c.ret)}

\* the record of the batch for sequence s
SgOf(list, s) == list[CHOOSE i \in 1..Len(list) : list[i].seq_id = s]

\* a call of either path with logprobs disabled
DummyLogprobsCall ==
    disable_logprobs /\ call.kind \in {"run_no_spec", "create_output_sampler_list"}

\* C13 as the specification states it: with disable_logprobs true, in every
\* record of either path the token's logprob is -infinity or 0.0 and the
\* top-k list has the configured length (the sequence's num_logprobs, the
\* scorer's max_logprobs, or the smaller of the two) and holds sentinels only.
C13_DummiesOfConfiguredLength ==
    DummyLogprobsCall =>
        \A smp \in Samples(call) :
            LET sg == SgOf(call.seq_group_metadata_list, smp.seq_id)
            IN /\ smp.logprob \in {"zero", "neg_inf"}
               /\ Len(smp.topk_token_ids)
                    \in {sg.logprobs, MaxLogprobs, Min(MaxLogprobs, sg.logprobs)}
               /\ \A j \in 1..Len(smp.topk_token_ids) :
                    smp.topk_token_ids[j] \in {"None", "-1"}

\* C13, amended: with disable_logprobs true the token's logprob is 0.0 with
\* rank -1 for every sampled token and -infinity with rank 0 for the
\* placeholder of a prompt that does not sample; the top-k list is empty on
\* the no-spec path whatever num_logprobs is, and on the speculative path it
\* holds min(num_logprobs, max_logprobs) entries None for a sampled token and
\* num_logprobs entries -1 for the placeholder of a prompt that does not
\* sample; prompt logprobs, where asked for, are dummies.
C13_DummiesByPath ==
    DummyLogprobsCall =>
        /\ \A smp \in Samples(call) :
            LET sg == SgOf(call.seq_group_metadata_list, smp.seq_id)
            IN IF call.kind = "run_no_spec"
               THEN /\ smp.logprob = "zero" /\ smp.rank = -1
                    /\ smp.topk_token_ids = <<>>
               ELSE IF sg.do_sample
               THEN /\ smp.logprob = "zero" /\ smp.rank = -1
                    /\ smp.topk_token_ids
                        = Repeat("None", Min(MaxLogprobs, sg.logprobs))
               ELSE /\ smp.logprob = "neg_inf" /\ smp.rank = 0
                    /\ smp.topk_token_ids = Repeat("-1", sg.logprobs)
        /\ \A r \in 1..Len(call.ret) : \A o \in 1..Len(call.ret[r].outputs) :
                call.ret[r].outputs[o].prompt_logprobs \in {None, "dummy"}

\* the speculative path with logprobs disabled: a prompt that does not
\* sample and a decode, both asking for more logprobs than max_logprobs
C13_Witness ==
    /\ disable_logprobs /\ call.kind = "create_output_sampler_list"
    /\ Len(call.seq_group_metadata_list) = 2
    /\ ~call.seq_group_metadata_list[1].do_sample
    /\ call.seq_group_metadata_list[1].logprobs > MaxLogprobs
    /\ ~call.seq_group_metadata_list[2].is_prompt
    /\ call.seq_group_metadata_list[2].logprobs > MaxLogprobs
    /\ Len(call.ret) = 3

\* ------------------------------------------- SpecBlocks: the cache blocks
\* A Python int has no width; the model keeps one as two limbs <<hi, lo>>
\* with value hi * Base + lo and 0 <= lo < Base.  A Python float is an IEEE
\* double: MantissaBits significant bits, round to nearest, ties to even.
Base == 67108864
MantissaBits == 53
MaxBlockBytes == 3
MaxBlocks == 8

Big(n) == <<n \div Base, n % Base>>

BigNorm(hi, lo) == <<hi + lo \div Base, lo % Base>>

BigMul(x, s) == BigNorm(x[1] * s, x[2] * s)

BigAdd(x, s) == BigNorm(x[1], x[2] + s)

BigLeq(x, y) == x[1] < y[1] \/ (x[1] = y[1] /\ x[2] <= y[2])

\* x // b and x % b, b a small int
BigDivMod(x, b) ==
    LET low == (x[1] % b) * Base + x[2]
    IN [quot |-> <<x[1] \div b, low \div b>>, rem |-> low % b]

RECURSIVE Log2(_)
Log2(n) == IF n <= 1 THEN 0 ELSE 1 + Log2(n \div 2)

RECURSIVE Pow2(_)
Pow2(k) == IF k <= 0 THEN 1 ELSE 2 * Pow2(k - 1)

\* the position of the leading bit of x >= 1
Exponent(x) == IF x[1] > 0 THEN Log2(Base) + Log2(x[1]) ELSE Log2(x[2])

\* int(a / b) for ints a >= 0 and b > 0 with a / b < 2^(MantissaBits + 1):
\* the true division gives the double nearest to the quotient (ties to
\* even), and int() drops its fraction.
TrueDivideToInt(a, b) ==
    LET d == BigDivMod(a, b)
        q == d.quot
        r == d.rem
        e == Exponent(q)
    IN IF q = <<0, 0>> THEN q
       ELSE IF e < MantissaBits - 1
       THEN \* doubles are spaced 2^-k apart here, k >= 1: the quotient
            \* reaches q + 1 only from half a spacing below it or nearer
            LET k == MantissaBits - 1 - e
            IN IF k + 1 <= 30 /\ b - r <= b \div Pow2(k + 1) THEN BigAdd(q, 1) ELSE q
       ELSE IF e = MantissaBits - 1
       THEN \* doubles are the integers here
            IF 2 * r > b \/ (2 * r = b /\ q[2] % 2 = 1) THEN BigAdd(q, 1) ELSE q
       ELSE \* doubles are the even integers here
            LET m == BigDivMod(q, 2)
                over == m.rem * b + r
                up == over > b \/ (over = b /\ m.quot[2] % 2 = 1)
            IN BigMul(IF up THEN BigAdd(m.quot, 1) ELSE m.quot, 2)

\* split_num_cache_blocks_evenly; total_num_gpu_blocks and the result in limbs
split_num_cache_blocks_evenly(scorer_cache_block_size_bytes, proposer_cache_block_size_bytes, total_num_gpu_blocks) ==
    TrueDivideToInt(BigMul(total_num_gpu_blocks, scorer_cache_block_size_bytes),
                    proposer_cache_block_size_bytes + scorer_cache_block_size_bytes)

\* split_num_cache_blocks_evenly called on its own
SplitNumCacheBlocksEvenly(S, P, T) ==
    /\ call.kind = "none"
    /\ call' = [kind |-> "split_num_cache_blocks_evenly",
                scorer_cache_block_size_bytes |-> S,
                proposer_cache_block_size_bytes |-> P,
                total_num_gpu_blocks |-> T,
                ret |-> split_num_cache_blocks_evenly(S, P, T)]
    /\ UNCHANGED <<config, seq_with_bonus_token_in_last_step, request_id_seq_id_mapping,
                   previous_hidden_states, chan, worker_pc, worker, sent_step,
                   last_commit_bonus>>

\* variant: the scorer's count is returned as it is
determine_num_available_blocks_unsplit(reported, scorer_block_bytes, proposer_block_bytes) == reported

\* determine_num_available_blocks: reported is the pair the scorer worker
\* returns, the block sizes are what the two workers return
determine_num_available_blocks(reported, scorer_block_bytes, proposer_block_bytes) ==
    <<split_num_cache_blocks_evenly(scorer_block_bytes, proposer_block_bytes, reported[1]),
      reported[2]>>

DetermineNumAvailableBlocks(reported, S, P) ==
    /\ call.kind = "none"
    /\ call' = [kind |-> "determine_num_available_blocks",
                reported |-> reported,
                scorer_cache_block_size_bytes |-> S,
                proposer_cache_block_size_bytes |-> P,
                ret |-> determine_num_available_blocks(reported, S, P)]
    /\ UNCHANGED <<config, seq_with_bonus_token_in_last_step, request_id_seq_id_mapping,
                   previous_hidden_states, chan, worker_pc, worker, sent_step,
                   last_commit_bonus>>

\* initialize_cache: what each worker's initialize_cache is called with
initialize_cache(num_gpu_blocks, num_cpu_blocks) ==
    [scorer |-> [num_gpu_blocks |-> num_gpu_blocks, num_cpu_blocks |-> num_cpu_blocks],
     proposer |-> [num_gpu_blocks |-> num_gpu_blocks, num_cpu_blocks |-> num_cpu_blocks]]

InitializeCache(num_gpu_blocks, num_cpu_blocks) ==
    /\ call.kind = "none"
    /\ call' = [kind |-> "initialize_cache", num_gpu_blocks |-> num_gpu_blocks,
                num_cpu_blocks |-> num_cpu_blocks,
                caches |-> initialize_cache(num_gpu_blocks, num_cpu_blocks)]
    /\ UNCHANGED <<config, seq_with_bonus_token_in_last_step, request_id_seq_id_mapping,
                   previous_hidden_states, chan, worker_pc, worker, sent_step,
                   last_commit_bonus>>

\* block sizes and block counts: small ones, the two worked cases of the
\* documentation, and block counts from 2^MantissaBits on
BlockInputs ==
    {<<S, P, Big(T)>> : S \in 1..MaxBlockBytes, P \in 1..MaxBlockBytes, T \in 0..MaxBlocks}
    \cup {<<S, P, <<Pow2(MantissaBits - Log2(Base)), T>>>> :
            S \in 1..MaxBlockBytes, P \in 1..MaxBlockBytes, T \in 0..MaxBlocks}
    \cup {<<100, 60, Big(160)>>, <<100, 100, Big(7)>>}

BlocksInit ==
    /\ disable_by_batch_size = 0
    /\ num_spec_prefill_steps = 1
    /\ allow_zero_draft_token_step = TRUE
    /\ disable_logprobs = FALSE
    /\ InitState

BlocksSplitStep == \E i \in BlockInputs : SplitNumCacheBlocksEvenly(i[1], i[2], i[3])

BlocksDetermineStep ==
    \E S \in 1..MaxBlockBytes, P \in 1..MaxBlockBytes, g \in 0..MaxBlocks, c \in 0..MaxBlocks :
        DetermineNumAvailableBlocks(<<Big(g), c>>, S, P)

BlocksInitializeStep ==
    \E g \in 0..MaxBlocks, c \in 0..MaxBlocks : InitializeCache(Big(g), c)

BlocksNext ==
    \/ BlocksSplitStep
    \/ BlocksDetermineStep
    \/ BlocksInitializeStep
    \/ ReturnToEngine

SpecBlocks == BlocksInit /\ [][BlocksNext]_vars

\* C14: split_num_cache_blocks_evenly(S, P, T) returns n with
\* n * (S + P) <= T * S < (n + 1) * (S + P), that is floor(T * S / (S + P)),
\* for all positive S and P and every T >= 0.
C14_FloorOfShare ==
    call.kind = "split_num_cache_blocks_evenly" =>
        LET b == call.scorer_cache_block_size_bytes + call.proposer_cache_block_size_bytes
            a == BigMul(call.total_num_gpu_blocks, call.scorer_cache_block_size_bytes)
        IN /\ BigLeq(BigMul(call.ret, b), a)
           /\ ~BigLeq(BigMul(BigAdd(call.ret, 1), b), a)

\* C15: determine_num_available_blocks returns the scorer's gpu block count
\* put through split_num_cache_blocks_evenly with the two block sizes, and
\* the scorer's cpu block count as it is; initialize_cache gives the scorer
\* and the proposer the pair it was called with.
C15_SameBlockCounts ==
    /\ call.kind = "determine_num_available_blocks" =>
            /\ call.ret[1] = split_num_cache_blocks_evenly(
                                call.scorer_cache_block_size_bytes,
                                call.proposer_cache_block_size_bytes, call.reported[1])
            /\ call.ret[2] = call.reported[2]
    /\ call.kind = "initialize_cache" =>
            /\ call.caches.scorer = call.caches.proposer
            /\ call.caches.scorer.num_gpu_blocks = call.num_gpu_blocks
            /\ call.caches.scorer.num_cpu_blocks = call.num_cpu_blocks

\* the scorer reports room for more gpu blocks than the two models can share
C15_Witness ==
    /\ call.kind = "determine_num_available_blocks"
    /\ call.reported[1] = Big(MaxBlocks)
    /\ call.ret[1] # call.reported[1]
    /\ call.ret[1] # Big(0)
    /\ call.reported[2] > 0
\* ------------------------------ SpecReceipts: the dicts a rank receives
\* The driver's steps over batches of one sequence and its shutdown; the
\* non-driver rank receives every dict, by the loop or by execute_model,
\* and the first MaxReceipts receipts are kept.
ReceiptsMetas == Metas({1}, BOOLEAN, {TRUE}, {0, 1}, {0}, {0}, {FALSE})

ReceiptsRequests ==
    Requests(Batches(ReceiptsMetas, 1), 0..MaxK, 0..MaxQueueSize, {{}})

ReceiptsInit ==
    /\ disable_by_batch_size \in 0..MaxQueueSize
    /\ num_spec_prefill_steps = 1
    /\ allow_zero_draft_token_step = TRUE
    /\ disable_logprobs = FALSE
    /\ InitState

ReceiptsDriverStep ==
    \E req \in ReceiptsRequests :
        \E env \in StepEnvs(req, {1}, {FALSE}) : ExecuteModel(req, env)

ReceiptsNext ==
    \/ ReceiptsDriverStep
    \/ ExecuteModelNone
    \/ ReturnToEngine
    \/ StartWorkerExecutionLoop
    \/ RunNonDriverRankLogged
    \/ NonDriverExecuteModelLogged
    \/ WorkerContinue

SpecReceipts == ReceiptsInit /\ [][ReceiptsNext]_vars

HiddenLists ==
    {b \in Batches(NoSpecMetas, MaxSeqs) : Len(b) > 0}

HiddenRows(list) ==
    {t \in [1..Len(list) -> {Hid(s, j) : s \in SeqIds, j \in 0..1}] :
        \A r \in 1..Len(list) : t[r] \in {Hid(list[r].seq_id, 0), Hid(list[r].seq_id, 1)}}

HiddenInit ==
    /\ disable_by_batch_size = 0
    /\ num_spec_prefill_steps = 1
    /\ allow_zero_draft_token_step = TRUE
    /\ disable_logprobs = FALSE
    /\ InitState

HiddenNoSpecStep ==
    \E b \in Batches(NoSpecMetas, MaxSeqs) : RunNoSpec(b, FALSE, TRUE)

HiddenPruneUpdateStep ==
    \E list \in HiddenLists :
        \E t \in HiddenRows(list) : PruneThenUpdate(list, t)

HiddenNext ==
    \/ HiddenNoSpecStep
    \/ HiddenPruneUpdateStep
    \/ ReturnToEngine

SpecHidden == HiddenInit /\ [][HiddenNext]_vars

\* the sequence ids of a list
ListSeqIds(list) == {list[r].seq_id : r \in 1..Len(list)}

\* C22 as the specification states it: prune and then update with one
\* active list leave the buffer as it was, whatever it held.
C22_PruneUpdateNoOp ==
    call.kind = "prune_then_update" => call.after = call.before

\* C22, amended: prune and then update with one list leave the buffer
\* holding exactly the sequences of the list, each with the hidden state
\* given to update, which is what update and then prune (the order of
\* _run_no_spec) leave; the buffer is as before only when it held exactly
\* these entries.
C22_PruneUpdateReplaces ==
    call.kind = "prune_then_update" =>
        LET list == call.active_meta_list
            row(s) == CHOOSE r \in 1..Len(list) : list[r].seq_id = s
        IN /\ DOMAIN call.pruned.hidden = DOMAIN call.before.hidden \cap ListSeqIds(list)
           /\ DOMAIN call.after.hidden = ListSeqIds(list)
           /\ \A s \in ListSeqIds(list) : call.after.hidden[s] = call.hidden_states[row(s)]
           /\ call.after = HiddenStatesPrune(
                                HiddenStatesUpdate(call.before, call.hidden_states, list), list)
           /\ (call.after = call.before) =
                    /\ DOMAIN call.before.hidden = ListSeqIds(list)
                    /\ \A s \in ListSeqIds(list) :
                            call.before.hidden[s] = call.hidden_states[row(s)]
           /\ previous_hidden_states = Some(call.after)

\* the buffer held a sequence that is not in the list and one that is,
\* with another hidden state than the one given
C22_Witness ==
    /\ call.kind = "prune_then_update"
    /\ DOMAIN call.before.hidden \ ListSeqIds(call.active_meta_list) # {}
    /\ \E s \in DOMAIN call.before.hidden \cap ListSeqIds(call.active_meta_list) :
            call.before.hidden[s] # call.after.hidden[s]
\* ------------------------------ SpecPeer: the coordinator of a non-driver rank
\* The variables are the fields of the coordinator built on the non-driver
\* rank.  The driver is another process: any control dict may arrive.  The
\* rank runs the loop, or execute_model with any request or with None.
ControlDicts ==
    {EmptyDict} \cup
    {broadcast_dict(k, no_spec, disable_all_speculation, atleast_one_prompt) :
        k \in 0..MaxK, no_spec \in BOOLEAN, disable_all_speculation \in BOOLEAN,
        atleast_one_prompt \in BOOLEAN}

PeerRequests ==
    {Absent} \cup
    {Some(r) : r \in Requests(Batches(TrackMetas, 1), 0..1, {0},
                              {{}} \cup {{q} : q \in RequestIds})}

PeerInit ==
    /\ disable_by_batch_size \in 0..MaxQueueSize
    /\ num_spec_prefill_steps = 1
    /\ allow_zero_draft_token_step = TRUE
    /\ disable_logprobs = FALSE
    /\ InitState

PeerBroadcastStep == \E data \in ControlDicts : RemoteBroadcast(data)

PeerExecuteModelStep ==
    \E execute_model_req \in PeerRequests : NonDriverExecuteModelWith(execute_model_req)

PeerNext ==
    \/ PeerBroadcastStep
    \/ PeerExecuteModelStep
    \/ StartWorkerExecutionLoop
    \/ RunNonDriverRank
    \/ WorkerContinue

SpecPeer == PeerInit /\ [][PeerNext]_vars

\* C23: on a non-driver rank the bonus set, the request-to-sequences map
\* and the hidden-state buffer stay as __init__ left them, whatever dicts
\* arrive and whatever request execute_model is given; execute_model
\* returns the empty list.
C23_PeerTablesUntouched ==
    /\ seq_with_bonus_token_in_last_step = {}
    /\ request_id_seq_id_mapping = <<>>
    /\ previous_hidden_states = Absent
    /\ (worker.kind = "run" /\ worker.via = "execute_model") => worker.returned = <<>>

\* execute_model was given a request with a batch and a finished request,
\* and a dict telling to run a speculative step arrived
C23_Witness ==
    /\ worker.kind = "run" /\ worker.via = "execute_model"
    /\ worker.execute_model_req.present
    /\ worker.execute_model_req.value.seq_group_metadata_list # <<>>
    /\ worker.execute_model_req.value.finished_requests_ids # {}
    /\ ~worker.data.empty /\ ~worker.data.no_spec
    /\ worker.execs # <<>>
\* ------------------- SpecCarry: the hidden states carried between steps
\* Steps with and without speculation over prompts and decodes, the target
\* model returning hidden states or not, the acceptance sampler emitting
\* one token for each row; requests finish between the steps.
CarryMetas == Metas(SeqIds, BOOLEAN, {TRUE}, {1}, {0}, {0}, {FALSE})

CarryRequests ==
    Requests(Batches(CarryMetas, MaxSeqs), 0..1, {0},
             {{}} \cup {{r} : r \in RequestIds})

CarryInit ==
    /\ disable_by_batch_size = 0
    /\ num_spec_prefill_steps = 1
    /\ allow_zero_draft_token_step \in BOOLEAN
    /\ disable_logprobs = FALSE
    /\ InitState

CarryStep ==
    \E req \in CarryRequests :
        \E env \in StepEnvs(req, {1}, BOOLEAN) : ExecuteModel(req, env)

CarryNext ==
    \/ CarryStep
    \/ ReturnToEngine
    \/ WorkerNext

SpecCarry == CarryInit /\ [][CarryNext]_vars

\* the driver has run a speculative step
SpeculativeStep == call.kind = "call" /\ call.path = "spec"

\* C28: in a speculative step get_spec_proposals is given the buffer as it
\* was when the step began; the buffer is empty from then on unless
\* _verify_tokens writes it; the scorer is invoked with the request's
\* previous_hidden_states empty; and when the scorer returns no hidden
\* states the buffer is empty when the step ends.
C28_BufferTakenAndCleared ==
    SpeculativeStep =>
        /\ call.spec.proposer_hidden_states = call.hidden_before
        /\ call.raised = "RuntimeError" =>
                /\ previous_hidden_states = Absent
                /\ call.spec.scorer_hidden_states = Absent
        /\ call.raised # "RuntimeError" => call.spec.scorer_hidden_states = Some(Absent)
        /\ ~call.env.with_hidden => previous_hidden_states = Absent
        /\ call.raised = "AssertionError" => previous_hidden_states = Absent
        /\ (call.env.with_hidden /\ call.raised = "") =>
                /\ previous_hidden_states.present
                /\ DOMAIN previous_hidden_states.value.hidden = SamplingSeqIds(call.batch)

\* a speculative step began with a buffer holding hidden states, gave
\* them to the proposer, and the scorer returned none
C28_Witness ==
    /\ SpeculativeStep /\ call.raised = ""
    /\ call.hidden_before.present
    /\ DOMAIN call.hidden_before.value.hidden # {}
    /\ call.spec.proposer_hidden_states = call.hidden_before
    /\ ~call.env.with_hidden
    /\ previous_hidden_states = Absent

\* C29: a driver step drops from the buffer the hidden states of the
\* sequences of the requests it is told have finished, so neither the
\* buffer handed to the proposer nor the buffer the step leaves holds the
\* hidden state of such a sequence.
C29_FinishedPrunedFromBuffer ==
    call.kind = "call" =>
        /\ BufferSeqIds(call.spec.proposer_hidden_states) \cap call.finished_seq_ids = {}
        /\ BufferSeqIds(previous_hidden_states) \cap call.finished_seq_ids = {}
\* ------------------------------------ SpecSeeds: the seeded sequences
\* _verify_tokens over batches of prompts and decodes with and without a
\* seed, the proposer proposing for any of the decodes.
SeedMetas == Metas(SeqIds, BOOLEAN, {TRUE}, {1}, {0}, {0}, BOOLEAN)

SeedsInit ==
    /\ disable_by_batch_size = 0
    /\ num_spec_prefill_steps = 1
    /\ allow_zero_draft_token_step = TRUE
    /\ disable_logprobs = FALSE
    /\ InitState

SeedsStep ==
    \E b \in Batches(SeedMetas, MaxSeqs), k \in 1..MaxK :
        \E env \in Envs(b, k, 1..(MaxK + 1), {FALSE}) : VerifyTokens(b, k, env)

SeedsNext ==
    \/ SeedsStep
    \/ ReturnToEngine

SpecSeeds == SeedsInit /\ [][SeedsNext]_vars

\* C30: every key of seeded_seqs is a row of the tensors given to the
\* acceptance sampler, which hold the speculative sequences in batch order,
\* and the generator under the key is the one of the request of the
\* sequence in that row.
C30_SeededKeysAreSamplerRows ==
    call.kind = "verify_tokens" =>
        LET list == call.seq_group_metadata_list
            spec_indices ==
                split_batch_by_proposal_len(list, call.env.proposal_lens).spec_indices
        IN \A idx \in DOMAIN call.seeded_seqs :
                /\ idx <= call.sampler_rows
                /\ call.seeded_seqs[idx] = list[spec_indices[idx]].request_id
====
